---- MODULE Spec2Model ----
(***************************************************************************)
(* clientify: the $ref resolver (loader.py), the IR builder (ir.py), the   *)
(* type emitter (generation/emitter.py) and the models                     *)
(* (generation/models.py).                                                 *)
(*                                                                         *)
(* Strings are sequences of symbols.  A symbol is one of the characters    *)
(* the code inspects ("#", "/", "~", "0", "1", ".", "..") or a word that  *)
(* contains none of them and is never split by the code.                   *)
(*                                                                         *)
(* A JSON value is a record [k, s, keys, e]:                               *)
(*   k = "obj"  : a dict, keys (strings, insertion order) and values e     *)
(*   k = "list" : a list with elements e                                   *)
(*   k = "str"  : the string s;  k = "num" : a number written s            *)
(*   k = "bool" : True or False, s = "true" or "false"                     *)
(*   k = "null" : None                                                     *)
(***************************************************************************)
EXTENDS Integers, Sequences, FiniteSets, TLC

----------------------------------------------------------------------------
(* JSON values *)

W(t) == <<t>>

Str(s) == [k |-> "str", s |-> s, keys |-> <<>>, e |-> <<>>]
Num(s) == [k |-> "num", s |-> s, keys |-> <<>>, e |-> <<>>]
Bool(b) == [k |-> "bool", s |-> W(IF b THEN "true" ELSE "false"), keys |-> <<>>, e |-> <<>>]
None == [k |-> "null", s |-> <<>>, keys |-> <<>>, e |-> <<>>]
List(es) == [k |-> "list", s |-> <<>>, keys |-> <<>>, e |-> es]
Dict(ks, es) == [k |-> "obj", s |-> <<>>, keys |-> ks, e |-> es]

IsDict(v) == v.k = "obj"
IsList(v) == v.k = "list"
IsStr(v) == v.k = "str"

RefKey == W("$ref")
StampKey == <<"x-clientify-", "schema-name">>

\* key in d
DictHas(d, key) == \E i \in 1..Len(d.keys) : d.keys[i] = key
KeyIndex(d, key) == CHOOSE i \in 1..Len(d.keys) : d.keys[i] = key
\* d[key]
DictGet(d, key) == d.e[KeyIndex(d, key)]
\* d[key] = v : an existing key keeps its position, a new key is appended
DictSet(d, key, v) ==
  IF DictHas(d, key)
    THEN [d EXCEPT !.e[KeyIndex(d, key)] = v]
    ELSE [d EXCEPT !.keys = Append(@, key), !.e = Append(@, v)]
\* d.get(key, default)
DictGetOr(d, key, default) == IF DictHas(d, key) THEN DictGet(d, key) ELSE default
\* bool(v)
Truthy(v) ==
  CASE v.k = "obj" -> v.keys # <<>>
    [] v.k = "list" -> v.e # <<>>
    [] v.k = "str" -> v.s # <<>>
    [] v.k = "num" -> v.s # W("0")
    [] v.k = "bool" -> v.s = W("true")
    [] OTHER -> FALSE
\* d.setdefault(key, v)
DictSetDefault(d, key, v) == IF DictHas(d, key) THEN d ELSE DictSet(d, key, v)

\* the element of a set of one element: Only({ f(v) : v \in {e} }) is f(e), with
\* e evaluated once
Only(S) == CHOOSE x \in S : TRUE

----------------------------------------------------------------------------
(* str methods *)

\* s.startswith(p)
StartsWith(s, p) == Len(s) >= Len(p) /\ SubSeq(s, 1, Len(p)) = p

RECURSIVE SplitFrom(_, _, _, _)
SplitFrom(s, sep, i, cur) ==
  IF i > Len(s) THEN <<cur>>
  ELSE IF s[i] = sep THEN <<cur>> \o SplitFrom(s, sep, i + 1, <<>>)
  ELSE SplitFrom(s, sep, i + 1, Append(cur, s[i]))
\* s.split(sep), sep one character: always at least one part
Split(s, sep) == SplitFrom(s, sep, 1, <<>>)

\* s.replace(old, new), old two characters: leftmost, non-overlapping
RECURSIVE Replace(_, _, _)
Replace(s, old, new) ==
  IF Len(s) < 2 THEN s
  ELSE IF SubSeq(s, 1, 2) = old
    THEN new \o Replace(SubSeq(s, 3, Len(s)), old, new)
    ELSE <<s[1]>> \o Replace(Tail(s), old, new)

\* urllib.parse.urldefrag: split at the first "#"
HashAt(s) == IF \E i \in 1..Len(s) : s[i] = "#"
               THEN CHOOSE i \in 1..Len(s) : s[i] = "#" /\ \A j \in 1..(i - 1) : s[j] # "#"
               ELSE 0
urldefrag(ref) ==
  IF HashAt(ref) = 0 THEN [path |-> ref, frag |-> <<>>]
  ELSE [path |-> SubSeq(ref, 1, HashAt(ref) - 1),
        frag |-> SubSeq(ref, HashAt(ref) + 1, Len(ref))]

----------------------------------------------------------------------------
(* pathlib: an absolute path is its sequence of components *)

RECURSIVE Normalize(_, _)
Normalize(acc, parts) ==
  IF parts = <<>> THEN acc
  ELSE IF Head(parts) = <<>> \/ Head(parts) = W(".") THEN Normalize(acc, Tail(parts))
  ELSE IF Head(parts) = W("..")
    THEN Normalize(IF acc = <<>> THEN acc ELSE SubSeq(acc, 1, Len(acc) - 1), Tail(parts))
  ELSE Normalize(Append(acc, Head(parts)), Tail(parts))
\* (current_base / path_part).resolve()
JoinResolve(base, path_part) ==
  Normalize(IF StartsWith(path_part, W("/")) THEN <<>> ELSE base, Split(path_part, "/"))
\* path.parent
Parent(path) == IF path = <<>> THEN path ELSE SubSeq(path, 1, Len(path) - 1)

----------------------------------------------------------------------------
(* _resolve_pointer *)

UnescapeSwapped(part) == Replace(Replace(part, <<"~", "0">>, W("~")), <<"~", "1">>, W("/"))
\* part.replace("~1", "/").replace("~0", "~")
Unescape(part) == Replace(Replace(part, <<"~", "1">>, W("/")), <<"~", "0">>, W("~"))

RECURSIVE WalkPointer(_, _)
WalkPointer(current, parts) ==
  IF parts = <<>> THEN [ok |-> TRUE, v |-> current]
  ELSE IF IsDict(current) /\ DictHas(current, Unescape(Head(parts)))
    THEN WalkPointer(DictGet(current, Unescape(Head(parts))), Tail(parts))
    ELSE [ok |-> FALSE, v |-> None]
\* ok = FALSE stands for raise SpecError("Unresolvable $ref pointer")
resolve_pointer(document, fragment) ==
  IF fragment = <<>> \/ fragment = W("#") THEN [ok |-> TRUE, v |-> document]
  ELSE WalkPointer(document,
         Split(IF StartsWith(fragment, W("/")) THEN Tail(fragment) ELSE fragment, "/"))

----------------------------------------------------------------------------
(* The file system the resolver reads: parsed content by absolute path.    *)
(* The program runs in directory /w.                                       *)

Cwd == <<W("w")>>

Ref(r) == Dict(<<RefKey>>, <<Str(r)>>)
Obj1(key, v) == Dict(<<W(key)>>, <<v>>)
Typed(t) == Obj1("type", Str(W(t)))

DefsRef == <<"defs.json", "#", "/", "D">>

Files ==
  (<<W("w"), W("defs.json")>> :>
      Dict(<<W("D"), W("E")>>,
           <<Typed("string"),
             Obj1("inner", Ref(<<"sub", "/", "other.json", "#", "/", "X">>))>>))
  @@ (<<W("w"), W("sub"), W("other.json")>> :> Obj1("X", Ref(DefsRef)))
  @@ (<<W("w"), W("sub"), W("defs.json")>> :> Obj1("D", Typed("integer")))
  @@ (<<W("w"), W("list.json")>> :> List(<<Num(W("7"))>>))
  @@ (<<W("w"), W("spec.json")>> :>
      Dict(<<W("openapi"), W("x")>>, <<Str(W("3.0.3")), Ref(DefsRef)>>))
  @@ (<<W("w"), W("noversion.json")>> :> Obj1("x", Ref(DefsRef)))

----------------------------------------------------------------------------
(* RefResolver: st = [cache, docCache, reads, met, err, depth, deepest]    *)
(*   cache, docCache : the fields _cache and _doc_cache                    *)
(*   reads           : the paths _load_doc gave to read_text, in order     *)
(*   met             : the $ref objects _resolve_object came to, each with *)
(*                     the base it had there                               *)
(*   err             : "" or the name of the exception being raised        *)
(*   depth           : the calls of _resolve_ref that are expanding their  *)
(*                     target (line 144) and have not returned             *)
(*   deepest         : the greatest depth of the pass                      *)

EmptyMap == [x \in {} |-> None]

\* the interpreter's recursion limit, counted in nested expansions
RecursionLimit == 8

NewState == [cache |-> EmptyMap, docCache |-> EmptyMap, reads |-> <<>>,
             met |-> {}, err |-> "", depth |-> 0, deepest |-> 0]

Raise(st, exc) == [v |-> None, st |-> [st EXCEPT !.err = exc]]

load_doc_uncached(path, st) ==
  LET st1 == [st EXCEPT !.reads = Append(@, path)]
  IN IF path \notin DOMAIN Files THEN Raise(st1, "FileNotFoundError")
     ELSE IF ~IsDict(Files[path]) THEN Raise(st1, "SpecError")
     ELSE [v |-> Files[path], st |-> [st1 EXCEPT !.docCache = (path :> Files[path]) @@ @]]
\* _load_doc(path, cache)
load_doc(path, st) ==
  IF path \in DOMAIN st.docCache THEN [v |-> st.docCache[path], st |-> st]
  ELSE LET st1 == [st EXCEPT !.reads = Append(@, path)]
       IN IF path \notin DOMAIN Files THEN Raise(st1, "FileNotFoundError")
          ELSE IF ~IsDict(Files[path]) THEN Raise(st1, "SpecError")
          ELSE [v |-> Files[path],
                st |-> [st1 EXCEPT !.docCache = (path :> Files[path]) @@ @]]

SchemasPrefix == <<"#", "/", "components", "/", "schemas", "/">>

StampFirstSegment(ref, resolved) ==
  IF StartsWith(ref, SchemasPrefix) /\ IsDict(resolved)
    THEN DictSetDefault(resolved, StampKey, Str(Split(ref, "/")[2]))
    ELSE resolved
\* lines 139-142: the provenance stamp
Stamp(ref, resolved) ==
  IF StartsWith(ref, SchemasPrefix) /\ IsDict(resolved)
    THEN DictSetDefault(resolved, StampKey, Str(Split(ref, "/")[Len(Split(ref, "/"))]))
    ELSE resolved

\* line 104: the $ref object has no sibling key
IsRefOnly(obj) == Len(obj.keys) = 1

CanMergeAnything(resolved) == TRUE
\* line 106: isinstance(resolved, dict)
CanMerge(resolved) == IsDict(resolved)

DictComprehensionReversed(ks, vs) ==
  Dict([i \in 1..Len(ks) |-> ks[Len(ks) + 1 - i]], [i \in 1..Len(vs) |-> vs[Len(vs) + 1 - i]])
\* line 114: {key: ... for key, value in obj_dict.items()}
DictComprehension(ks, vs) == Dict(ks, vs)

RECURSIVE resolve_object(_, _, _, _)
RECURSIVE ResolveItems(_, _, _, _)
RECURSIVE resolve_ref(_, _, _, _)
RECURSIVE MergeSiblings(_, _, _, _, _, _)

\* [self._resolve_object(item, current_base) for item in items]
ResolveItems(document, items, current_base, st) ==
  IF items = <<>> THEN [vs |-> <<>>, st |-> st]
  ELSE LET h == resolve_object(document, Head(items), current_base, st)
           t == ResolveItems(document, Tail(items), current_base, h.st)
       IN IF h.st.err # "" THEN [vs |-> <<>>, st |-> h.st]
          ELSE [vs |-> <<h.v>> \o t.vs, st |-> t.st]

\* lines 109-112: overlay the sibling keys i.. of obj on merged
MergeSiblings(document, obj, i, merged, current_base, st) ==
  IF i > Len(obj.keys) THEN [v |-> merged, st |-> st]
  ELSE IF obj.keys[i] = RefKey
    THEN MergeSiblings(document, obj, i + 1, merged, current_base, st)
  ELSE LET r == resolve_object(document, obj.e[i], current_base, st)
       IN IF r.st.err # "" THEN [v |-> None, st |-> r.st]
          ELSE MergeSiblings(document, obj, i + 1, DictSet(merged, obj.keys[i], r.v),
                             current_base, r.st)

\* the frame of line 144 is entered and left
Enter(st) ==
  [st EXCEPT !.depth = @ + 1,
             !.deepest = IF st.depth + 1 > @ THEN st.depth + 1 ELSE @]
Leave(r) == IF r.st.err # "" THEN r ELSE [v |-> r.v, st |-> [r.st EXCEPT !.depth = @ - 1]]

RememberNothing(cache, ref, resolved) == cache
\* line 143: self._cache[ref] = deepcopy(resolved)
Remember(cache, ref, resolved) == (ref :> resolved) @@ cache

\* RefResolver._resolve_ref
resolve_ref(document, ref, current_base, st) ==
  IF ref \in DOMAIN st.cache THEN [v |-> st.cache[ref], st |-> st]
  ELSE
       LET parts == urldefrag(ref)
           target_path == JoinResolve(current_base, parts.path)
           loaded == IF parts.path # <<>> THEN load_doc(target_path, st)
                     ELSE [v |-> document, st |-> st]
           base_for_ref == IF parts.path # <<>> THEN Parent(target_path) ELSE current_base
           pointed == resolve_pointer(loaded.v, parts.frag)
           resolved == Stamp(ref, pointed.v)
       IN IF loaded.st.err # "" THEN loaded
          ELSE IF parts.frag # <<>> /\ ~StartsWith(parts.frag, W("/"))
            THEN Raise(loaded.st, "SpecError")
          ELSE IF ~pointed.ok THEN Raise(loaded.st, "SpecError")
          ELSE IF st.depth >= RecursionLimit THEN Raise(loaded.st, "RecursionError")
          ELSE Leave(resolve_object(document, resolved, base_for_ref,
                       Enter([loaded.st EXCEPT !.cache = Remember(@, ref, resolved)])))

\* RefResolver._resolve_object
resolve_object(document, obj, current_base, st) ==
  IF IsList(obj)
    THEN LET r == ResolveItems(document, obj.e, current_base, st)
         IN IF r.st.err # "" THEN [v |-> None, st |-> r.st]
            ELSE [v |-> List(r.vs), st |-> r.st]
  ELSE IF ~IsDict(obj) THEN [v |-> obj, st |-> st]
  ELSE IF DictHas(obj, RefKey)
    THEN LET ref == DictGet(obj, RefKey)
             st1 == [st EXCEPT !.met = @ \cup {[obj |-> obj, base |-> current_base]}]
             r == resolve_ref(document, ref.s, current_base, st1)
         IN IF ~IsStr(ref) THEN Raise(st1, "SpecError")
            ELSE IF r.st.err # "" THEN [v |-> None, st |-> r.st]
            ELSE IF IsRefOnly(obj) THEN r
            ELSE IF ~CanMerge(r.v) THEN Raise(r.st, "SpecError")
            ELSE MergeSiblings(document, obj, 1, r.v, current_base, r.st)
  ELSE LET r == ResolveItems(document, obj.e, current_base, st)
       IN IF r.st.err # "" THEN [v |-> None, st |-> r.st]
          ELSE [v |-> DictComprehension(obj.keys, r.vs), st |-> r.st]

\* RefResolver.resolve: effective_base = self.base_path or Path.cwd()
EffectiveBase(base_path) == IF base_path.none THEN Cwd ELSE base_path.path
resolve(document, base_path, st) ==
  resolve_object(document, document, EffectiveBase(base_path), st)

NoBase == [none |-> TRUE, path |-> <<>>]
Base(path) == [none |-> FALSE, path |-> path]

----------------------------------------------------------------------------
(* The documents the entry points are given *)

RECURSIVE FromPairs(_)
\* the dict with the given (key, value) pairs, in order
FromPairs(ps) ==
  IF ps = <<>> THEN Dict(<<>>, <<>>)
  ELSE LET rest == FromPairs(Tail(ps))
       IN Dict(<<Head(ps)[1]>> \o rest.keys, <<Head(ps)[2]>> \o rest.e)

SchemaRef(name) == SchemasPrefix \o W(name)
RefA == SchemaRef("A")
RefB == SchemaRef("B")

BodiesA ==
  { Typed("object"),
    FromPairs(<< <<W("type"), Str(W("object"))>>,
                 <<W("properties"), Obj1("b", Ref(RefB))>> >>),
    Ref(RefB),
    FromPairs(<< <<W("type"), Str(W("object"))>>,
                 <<W("properties"), Obj1("self", Ref(RefA))>> >>) }

BodiesB ==
  { Typed("string"),
    FromPairs(<< <<W("type"), Str(W("array"))>>, <<W("items"), Ref(RefA)>> >>) }

\* the object under the root key "m": targets for pointers with escapes
Misc ==
  FromPairs(<< <<W("lst"), List(<<Num(W("7")), Ref(RefB)>>)>>,
               <<<<"a", "/", "b">>, Str(W("slash"))>>,
               <<<<"a", "~", "b">>, Str(W("tilde"))>>,
               <<<<"~", "1">>, Str(W("tilde-one"))>>,
               <<W("/"), Str(W("only-slash"))>> >>)

MiscRef(seg) == <<"#", "/", "m", "/">> \o seg

LocalRefs ==
  { RefA, RefB, SchemaRef("Missing"), <<"#", "bad">>, W("#"),
    MiscRef(W("lst")), MiscRef(<<"a", "~", "1", "b">>), MiscRef(<<"a", "~", "0", "b">>),
    MiscRef(<<"~", "0", "1">>) }

FileRefs ==
  { DefsRef, <<".", "/", "defs.json", "#", "/", "E">>,
    <<"sub", "/", "other.json", "#", "/", "X">>,
    <<"gone.json", "#", "/", "D">>, <<"gone.json", "#", "bad">>,
    <<"list.json", "#", "/", "D">> }

WithSibling(r, key, v) == FromPairs(<< <<RefKey, Str(r)>>, <<W(key), v>> >>)

UseForms ==
  { Ref(r) : r \in LocalRefs \cup FileRefs }
  \cup { WithSibling(r, "description", Str(W("merged"))) :
           r \in {RefA, RefB, MiscRef(W("lst")), MiscRef(<<"a", "~", "1", "b">>), DefsRef} }
  \cup { FromPairs(<< <<W("type"), Str(W("over"))>>, <<RefKey, Str(RefA)>> >>),
         WithSibling(RefA, "d", Ref(RefB)),
         WithSibling(RefA, "d", Ref(<<"#", "bad">>)),
         WithSibling(RefA, "d", Ref(SchemaRef("Missing"))),
         Dict(<<RefKey>>, <<Num(W("123"))>>),
         List(<<Ref(RefA)>>),
         Typed("string") }

Version == <<W("openapi"), Str(W("3.0.3"))>>
Components(a, b) ==
  <<W("components"),
    Obj1("schemas", FromPairs(<< <<W("A"), a>>, <<W("B"), b>> >>))>>

\* documents with two places x and y that use the schemas
RefDocs ==
  { FromPairs(<<Version, Components(a, b), <<W("m"), Misc>>, <<W("x"), x>>, <<W("y"), y>> >>) :
      a \in BodiesA, b \in BodiesB, x \in UseForms, y \in UseForms }

\* documents whose openapi field is absent or not a string
BadVersionDocs ==
  { FromPairs(<<Components(Typed("object"), Typed("string")), <<W("x"), x>> >>) :
      x \in UseForms }
  \cup { FromPairs(<< <<W("openapi"), v>>, Components(Typed("object"), Typed("string")),
                      <<W("x"), x>> >>) :
           v \in {None, Num(W("3"))}, x \in UseForms }

\* schemas that refer to themselves or to each other, the refs of the cycle
\* with and without sibling keys
CycleA ==
  { Ref(RefA),
    WithSibling(RefA, "description", Str(W("again"))),
    WithSibling(RefB, "description", Str(W("other"))),
    FromPairs(<< <<W("type"), Str(W("object"))>>,
                 <<W("properties"), Obj1("self", WithSibling(RefA, "nullable", Bool(TRUE)))>> >>) }
CycleB == { Ref(RefA), WithSibling(RefA, "description", Str(W("back"))) }
CycleUses ==
  { Ref(RefA), WithSibling(RefA, "title", Str(W("t"))),
    Ref(W("#")), WithSibling(W("#"), "title", Str(W("t"))) }

CycleDocs ==
  { FromPairs(<<Version, Components(a, b), <<W("x"), x>> >>) :
      a \in CycleA, b \in CycleB, x \in CycleUses }

\* refs to places inside a schema of components.schemas, read once and twice
DeepRefs ==
  { RefA \o <<"/", "properties">>, RefA \o <<"/", "properties", "/", "b">> }
DeepBodiesA ==
  { FromPairs(<< <<W("type"), Str(W("object"))>>,
                 <<W("properties"), Obj1("b", body)>> >>) :
      body \in { Typed("string"), Ref(RefB) } }
DeepUses ==
  { Ref(RefA) }
  \cup { Ref(r) : r \in DeepRefs }
  \cup { WithSibling(r, "title", Str(W("t"))) : r \in DeepRefs }

DeepDocs ==
  { FromPairs(<<Version, Components(a, Typed("string")), <<W("x"), x>>, <<W("y"), y>> >>) :
      a \in DeepBodiesA, x \in DeepUses, y \in DeepUses }

----------------------------------------------------------------------------
(* loader.py on a heap.  A dict or a list is a cell of the heap, named by  *)
(* its address; the values of a cell are slots: a str, a number, a bool or *)
(* None itself, or Ptr(a) for the dict or list at address a.  Two slots    *)
(* Ptr(a) are the same object.  The heap is the sequence of its cells.     *)

Ptr(a) == [k |-> "ptr", s |-> <<>>, keys |-> <<>>, e |-> <<a>>]
IsPtr(slot) == slot.k = "ptr"
\* the cell a pointer names; a slot that is no pointer is its own value
Deref(heap, slot) == IF IsPtr(slot) THEN heap[slot.e[1]] ELSE slot

RECURSIVE Store(_, _)
RECURSIVE StoreAll(_, _, _)
\* json.loads, deepcopy: the value built of new cells; r is its slot
Store(heap, v) ==
  IF v.k \in {"obj", "list"}
    THEN Only({ [heap |-> Append(inner.heap, [v EXCEPT !.e = inner.slots]),
                 r |-> Ptr(Len(inner.heap) + 1)] :
               inner \in {StoreAll(heap, v.e, <<>>)} })
    ELSE [heap |-> heap, r |-> v]
StoreAll(heap, vs, slots) ==
  IF vs = <<>> THEN [heap |-> heap, slots |-> slots]
  ELSE Only({ StoreAll(h.heap, Tail(vs), Append(slots, h.r)) :
             h \in {Store(heap, Head(vs))} })

RECURSIVE Val(_, _)
\* the JSON value a slot stands for
Val(heap, slot) ==
  IF IsPtr(slot)
    THEN [heap[slot.e[1]] EXCEPT
            !.e = [i \in 1..Len(heap[slot.e[1]].e) |-> Val(heap, heap[slot.e[1]].e[i])]]
    ELSE slot

\* deepcopy(obj)
DeepCopy(heap, slot) == Store(heap, Val(heap, slot))

NoCopy(heap, slot) == [heap |-> heap, r |-> slot]
\* dict(resolved): a new dict with the same values
ShallowCopy(heap, slot) ==
  [heap |-> Append(heap, heap[slot.e[1]]), r |-> Ptr(Len(heap) + 1)]

\* d.setdefault(key, v) and d[key] = v on the dict a pointer names
SetDefault(heap, slot, key, v) ==
  [heap EXCEPT ![slot.e[1]] = DictSetDefault(heap[slot.e[1]], key, v)]
SetItem(heap, slot, key, v) ==
  [heap EXCEPT ![slot.e[1]] = DictSet(heap[slot.e[1]], key, v)]

(* The resolver on the heap: hs = [heap, cache, docCache, err], cache and   *)
(* docCache map to slots.                                                   *)

HeapRaise(hs, exc) == [r |-> None, hs |-> [hs EXCEPT !.err = exc]]

\* _load_doc(path, cache)
heap_load_doc(path, hs) ==
  IF path \in DOMAIN hs.docCache THEN [r |-> hs.docCache[path], hs |-> hs]
  ELSE IF path \notin DOMAIN Files THEN HeapRaise(hs, "FileNotFoundError")
  ELSE IF ~IsDict(Files[path]) THEN HeapRaise(hs, "SpecError")
  ELSE Only({ [r |-> data.r,
               hs |-> [hs EXCEPT !.heap = data.heap,
                                 !.docCache = (path :> data.r) @@ @]] :
             data \in {Store(hs.heap, Files[path])} })

RECURSIVE HeapWalkPointer(_, _, _)
HeapWalkPointer(heap, current, parts) ==
  IF parts = <<>> THEN [ok |-> TRUE, r |-> current]
  ELSE IF IsDict(Deref(heap, current)) /\ DictHas(Deref(heap, current), Unescape(Head(parts)))
    THEN HeapWalkPointer(heap, DictGet(Deref(heap, current), Unescape(Head(parts))),
                         Tail(parts))
    ELSE [ok |-> FALSE, r |-> None]
\* _resolve_pointer: the slot found in the document, not a copy
heap_resolve_pointer(heap, document, fragment) ==
  IF fragment = <<>> \/ fragment = W("#") THEN [ok |-> TRUE, r |-> document]
  ELSE HeapWalkPointer(heap, document,
         Split(IF StartsWith(fragment, W("/")) THEN Tail(fragment) ELSE fragment, "/"))

\* lines 139-142: resolved = dict(resolved); resolved.setdefault(stamp, name)
HeapStamp(heap, ref, resolved) ==
  IF StartsWith(ref, SchemasPrefix) /\ IsDict(Deref(heap, resolved))
    THEN Only({ [heap |-> SetDefault(copy.heap, copy.r, StampKey,
                                     Str(Split(ref, "/")[Len(Split(ref, "/"))])),
                 r |-> copy.r] :
               copy \in {ShallowCopy(heap, resolved)} })
    ELSE [heap |-> heap, r |-> resolved]

\* line 143: self._cache[ref] = deepcopy(resolved)
HeapRemember(hs, ref, heap, resolved) ==
  Only({ [hs EXCEPT !.heap = copy.heap, !.cache = (ref :> copy.r) @@ @] :
        copy \in {DeepCopy(heap, resolved)} })

RECURSIVE heap_resolve_object(_, _, _, _)
RECURSIVE HeapResolveItems(_, _, _, _, _)
RECURSIVE heap_resolve_ref(_, _, _, _)
RECURSIVE HeapMergeSiblings(_, _, _, _, _, _)

\* [self._resolve_object(item, current_base) for item in items]
HeapResolveItems(document, items, slots, current_base, hs) ==
  IF items = <<>> THEN [slots |-> slots, hs |-> hs]
  ELSE Only({
               IF h.hs.err # "" THEN [slots |-> <<>>, hs |-> h.hs]
               ELSE HeapResolveItems(document, Tail(items), Append(slots, h.r),
                                     current_base, h.hs) :
             h \in {heap_resolve_object(document, Head(items), current_base, hs)} })

\* lines 109-112: merged[key] = self._resolve_object(value, current_base), for
\* the sibling keys i.. of the $ref object
HeapMergeSiblings(document, obj, i, merged, current_base, hs) ==
  IF i > Len(obj.keys) THEN [r |-> merged, hs |-> hs]
  ELSE IF obj.keys[i] = RefKey
    THEN HeapMergeSiblings(document, obj, i + 1, merged, current_base, hs)
  ELSE Only({
               IF v.hs.err # "" THEN [r |-> None, hs |-> v.hs]
               ELSE HeapMergeSiblings(document, obj, i + 1, merged, current_base,
                      [v.hs EXCEPT !.heap = SetItem(@, merged, obj.keys[i], v.r)]) :
             v \in {heap_resolve_object(document, obj.e[i], current_base, hs)} })

\* RefResolver._resolve_ref; a cache hit returns deepcopy(self._cache[ref])
heap_resolve_ref(document, ref, current_base, hs) ==
  IF ref \in DOMAIN hs.cache
    THEN Only({ [r |-> copy.r, hs |-> [hs EXCEPT !.heap = copy.heap]] :
               copy \in {DeepCopy(hs.heap, hs.cache[ref])} })
  ELSE Only({
         IF loaded.hs.err # "" THEN loaded
         ELSE IF urldefrag(ref).frag # <<>> /\ ~StartsWith(urldefrag(ref).frag, W("/"))
           THEN HeapRaise(loaded.hs, "SpecError")
         ELSE Only({
                IF ~pointed.ok THEN HeapRaise(loaded.hs, "SpecError")
                ELSE Only({
                       heap_resolve_object(document, resolved.r,
                         IF urldefrag(ref).path # <<>>
                           THEN Parent(JoinResolve(current_base, urldefrag(ref).path))
                           ELSE current_base,
                         HeapRemember(loaded.hs, ref, resolved.heap, resolved.r)) :
                     resolved \in {HeapStamp(loaded.hs.heap, ref, pointed.r)} }) :
              pointed \in {heap_resolve_pointer(loaded.hs.heap, loaded.r,
                                                urldefrag(ref).frag)} }) :
       loaded \in {IF urldefrag(ref).path # <<>>
                     THEN heap_load_doc(JoinResolve(current_base, urldefrag(ref).path), hs)
                     ELSE [r |-> document, hs |-> hs]} })

\* lines 105-112: the $ref object obj with sibling keys, its target resolved
HeapMerge(document, obj, resolved, current_base) ==
  IF ~IsDict(Deref(resolved.hs.heap, resolved.r)) THEN HeapRaise(resolved.hs, "SpecError")
  ELSE Only({ HeapMergeSiblings(document, obj, 1, merged.r, current_base,
                                [resolved.hs EXCEPT !.heap = merged.heap]) :
             merged \in {DeepCopy(resolved.hs.heap, resolved.r)} })

\* a new dict or list with the slots given
HeapNew(shape, items) ==
  IF items.hs.err # "" THEN [r |-> None, hs |-> items.hs]
  ELSE [r |-> Ptr(Len(items.hs.heap) + 1),
        hs |-> [items.hs EXCEPT !.heap = Append(@, [shape EXCEPT !.e = items.slots])]]

\* RefResolver._resolve_object
heap_resolve_object(document, slot, current_base, hs) ==
  Only({
    IF ~IsList(obj) /\ ~IsDict(obj) THEN [r |-> slot, hs |-> hs]
    ELSE IF IsDict(obj) /\ DictHas(obj, RefKey)
      THEN IF ~IsStr(DictGet(obj, RefKey)) THEN HeapRaise(hs, "SpecError")
           ELSE Only({
                  IF resolved.hs.err # "" \/ IsRefOnly(obj) THEN resolved
                  ELSE HeapMerge(document, obj, resolved, current_base) :
                resolved \in {heap_resolve_ref(document, DictGet(obj, RefKey).s,
                                               current_base, hs)} })
    ELSE HeapNew(obj, HeapResolveItems(document, obj.e, <<>>, current_base, hs)) :
  obj \in {Deref(hs.heap, slot)} })

NewHeapState == [heap |-> <<>>, cache |-> EmptyMap, docCache |-> EmptyMap, err |-> ""]

\* RefResolver.resolve
heap_resolve(document, base_path, hs) ==
  heap_resolve_object(document, document, EffectiveBase(base_path), [hs EXCEPT !.err = ""])

----------------------------------------------------------------------------
(* ir.py *)

EmptyDict == Dict(<<>>, <<>>)
EmptyList == List(<<>>)

\* _build_media_types
build_media_types(content) ==
  [i \in 1..Len(content.keys) |->
     [content_type |-> content.keys[i],
      schema |-> DictGetOr(content.e[i], W("schema"), None)]]

\* _build_parameter
build_parameter(param) ==
  [name |-> DictGetOr(param, W("name"), Str(<<>>)),
   location |-> DictGetOr(param, W("in"), Str(<<>>)),
   required |-> Truthy(DictGetOr(param, W("required"), Bool(FALSE))),
   schema |-> DictGetOr(param, W("schema"), None),
   content |-> build_media_types(DictGetOr(param, W("content"), EmptyDict)),
   style |-> DictGetOr(param, W("style"), None),
   explode |-> DictGetOr(param, W("explode"), None),
   default |-> DictGetOr(param, W("default"), None)]

ParamKey(param) == <<DictGetOr(param, W("name"), None), DictGetOr(param, W("in"), None)>>

RECURSIVE MergeParamsKeepFirst(_, _)
\* merged.setdefault((name, location), param): the first parameter of a key stays
MergeParamsKeepFirst(merged, params) ==
  IF params = <<>> THEN merged
  ELSE LET param == Head(params)
           key == ParamKey(param)
       IN IF ~Truthy(key[1]) \/ ~Truthy(key[2])
            THEN MergeParamsKeepFirst(merged, Tail(params))
          ELSE IF \E i \in 1..Len(merged) : ParamKey(merged[i]) = key
            THEN MergeParamsKeepFirst(merged, Tail(params))
          ELSE MergeParamsKeepFirst(Append(merged, param), Tail(params))

RECURSIVE MergeParams(_, _)
\* lines 228-234: merged[(name, location)] = param, for each param in order
MergeParams(merged, params) ==
  IF params = <<>> THEN merged
  ELSE LET param == Head(params)
           key == ParamKey(param)
       IN IF ~Truthy(key[1]) \/ ~Truthy(key[2]) THEN MergeParams(merged, Tail(params))
          ELSE IF \E i \in 1..Len(merged) : ParamKey(merged[i]) = key
            THEN MergeParams([i \in 1..Len(merged) |->
                                IF ParamKey(merged[i]) = key THEN param ELSE merged[i]],
                             Tail(params))
          ELSE MergeParams(Append(merged, param), Tail(params))

\* _merge_parameters
merge_parameters(common, specific) ==
  LET merged == MergeParams(<<>>, common.e \o specific.e)
  IN [i \in 1..Len(merged) |-> build_parameter(merged[i])]

NoRequestBody == [none |-> TRUE, required |-> FALSE, content |-> <<>>]
\* _build_request_body
build_request_body(request_body) ==
  IF ~Truthy(request_body) THEN NoRequestBody
  ELSE [none |-> FALSE,
        required |-> Truthy(DictGetOr(request_body, W("required"), Bool(FALSE))),
        content |-> build_media_types(DictGetOr(request_body, W("content"), EmptyDict))]

\* _build_responses
build_responses(responses) ==
  [i \in 1..Len(responses.keys) |->
     [status |-> responses.keys[i],
      description |-> DictGetOr(responses.e[i], W("description"), None),
      content |-> build_media_types(DictGetOr(responses.e[i], W("content"), EmptyDict))]]

\* _extract_extensions
extract_extensions(operation) ==
  LET keep == SelectSeq([i \in 1..Len(operation.keys) |-> i],
                        LAMBDA i : StartsWith(operation.keys[i], W("x-clientify-")))
  IN Dict([j \in 1..Len(keep) |-> operation.keys[keep[j]]],
          [j \in 1..Len(keep) |-> operation.e[keep[j]]])

Methods == <<"get", "put", "post", "delete", "options", "head", "patch", "trace">>

\* the loop body of _build_path_operations, for one present method
BuildOperation(path, method, common_params, operation) ==
  [method |-> method,
   path |-> path,
   operation_id |-> DictGetOr(operation, W("operationId"), None),
   parameters |-> merge_parameters(common_params,
                                   DictGetOr(operation, W("parameters"), EmptyList)),
   request_body |-> build_request_body(DictGetOr(operation, W("requestBody"), None)),
   responses |-> build_responses(DictGetOr(operation, W("responses"), EmptyDict)),
   extensions |-> extract_extensions(operation)]

\* the methods of the item that yield an operation, in document order
MethodsInDocumentOrder(item) ==
  LET ks == SelectSeq(item.keys,
              LAMBDA key : Len(key) = 1 /\ (\E m \in 1..Len(Methods) : Methods[m] = key[1])
                           /\ Truthy(DictGet(item, key)))
  IN [i \in 1..Len(ks) |-> ks[i][1]]
\* lines 197-200: the methods of the item that yield an operation, in loop order
PresentMethods(item) ==
  SelectSeq(Methods, LAMBDA m : Truthy(DictGetOr(item, W(m), None)))

\* _build_path_operations
build_path_operations(path, item) ==
  LET common_params == DictGetOr(item, W("parameters"), EmptyList)
      ms == PresentMethods(item)
  IN [i \in 1..Len(ms) |-> BuildOperation(path, ms[i], common_params, DictGet(item, W(ms[i])))]

RECURSIVE Extend(_, _, _)
\* lines 188-190: operations.extend(...) for the paths i.. of the paths map
Extend(operations, paths, i) ==
  IF i > Len(paths.keys) THEN operations
  ELSE Extend(operations \o build_path_operations(paths.keys[i], paths.e[i]), paths, i + 1)

\* build_ir
build_ir(document) ==
  LET components == DictGetOr(document, W("components"), EmptyDict)
      schemas == DictGetOr(components, W("schemas"), EmptyDict)
  IN [schemas |-> [i \in 1..Len(schemas.keys) |->
                     [name |-> schemas.keys[i], schema |-> schemas.e[i]]],
      operations |-> Extend(<<>>, DictGetOr(document, W("paths"), EmptyDict), 1)]

NoIR == [schemas |-> <<>>, operations |-> <<>>, err |-> ""]

(* The exceptions of build_ir: "" or the name of the first exception the    *)
(* code raises on the value, in the order the code evaluates.               *)

\* the first exception of a sequence of outcomes
FirstRaised(errs) ==
  IF \A i \in 1..Len(errs) : errs[i] = "" THEN ""
  ELSE errs[CHOOSE i \in 1..Len(errs) : errs[i] # "" /\ \A j \in 1..(i - 1) : errs[j] = ""]

\* _build_media_types: content.items(), media_type.get
media_types_raises(content) ==
  IF ~IsDict(content) THEN "AttributeError"
  ELSE IF \E i \in 1..Len(content.e) : ~IsDict(content.e[i]) THEN "AttributeError"
  ELSE ""

\* hash((name, location)): a list or a dict is unhashable
Unhashable(v) == IsDict(v) \/ IsList(v)

RECURSIVE MergeLoopRaises(_)
\* lines 229-234: param.get on each parameter, then the tuple used as a key
MergeLoopRaises(params) ==
  IF params = <<>> THEN ""
  ELSE IF ~IsDict(Head(params)) THEN "AttributeError"
  ELSE IF ~Truthy(ParamKey(Head(params))[1]) \/ ~Truthy(ParamKey(Head(params))[2])
    THEN MergeLoopRaises(Tail(params))
  ELSE IF Unhashable(ParamKey(Head(params))[1]) \/ Unhashable(ParamKey(Head(params))[2])
    THEN "TypeError"
  ELSE MergeLoopRaises(Tail(params))

\* _merge_parameters: common + specific, the loop, then _build_parameter on
\* each merged value
merge_parameters_raises(common, specific) ==
  IF IsStr(common) /\ IsStr(specific)
    THEN IF common.s = <<>> /\ specific.s = <<>> THEN "" ELSE "AttributeError"
  ELSE IF ~(IsList(common) /\ IsList(specific)) THEN "TypeError"
  ELSE IF MergeLoopRaises(common.e \o specific.e) # ""
    THEN MergeLoopRaises(common.e \o specific.e)
  ELSE FirstRaised([i \in 1..Len(MergeParams(<<>>, common.e \o specific.e)) |->
         media_types_raises(DictGetOr(MergeParams(<<>>, common.e \o specific.e)[i],
                                      W("content"), EmptyDict))])

\* _build_request_body
request_body_raises(request_body) ==
  IF ~Truthy(request_body) THEN ""
  ELSE IF ~IsDict(request_body) THEN "AttributeError"
  ELSE media_types_raises(DictGetOr(request_body, W("content"), EmptyDict))

\* _build_responses
responses_raises(responses) ==
  IF ~IsDict(responses) THEN "AttributeError"
  ELSE FirstRaised([i \in 1..Len(responses.e) |->
         IF ~IsDict(responses.e[i]) THEN "AttributeError"
         ELSE media_types_raises(DictGetOr(responses.e[i], W("content"), EmptyDict))])

\* the loop body of _build_path_operations, for one truthy operation
operation_raises(common_params, operation) ==
  IF ~IsDict(operation) THEN "AttributeError"
  ELSE FirstRaised(<<
         merge_parameters_raises(common_params,
                                 DictGetOr(operation, W("parameters"), EmptyList)),
         request_body_raises(DictGetOr(operation, W("requestBody"), None)),
         responses_raises(DictGetOr(operation, W("responses"), EmptyDict)) >>)

\* _build_path_operations
path_operations_raises(item) ==
  IF ~IsDict(item) THEN "AttributeError"
  ELSE FirstRaised([i \in 1..Len(PresentMethods(item)) |->
         operation_raises(DictGetOr(item, W("parameters"), EmptyList),
                          DictGet(item, W(PresentMethods(item)[i])))])

\* build_ir
build_ir_raises(document) ==
  IF ~IsDict(DictGetOr(document, W("components"), EmptyDict)) THEN "AttributeError"
  ELSE IF ~IsDict(DictGetOr(DictGetOr(document, W("components"), EmptyDict),
                            W("schemas"), EmptyDict))
    THEN "AttributeError"
  ELSE IF ~IsDict(DictGetOr(document, W("paths"), EmptyDict)) THEN "AttributeError"
  ELSE FirstRaised([i \in 1..Len(DictGetOr(document, W("paths"), EmptyDict).e) |->
         path_operations_raises(DictGetOr(document, W("paths"), EmptyDict).e[i])])

----------------------------------------------------------------------------
(* Documents with paths, for build_ir *)

MaxKeys == 2

Param(name, loc, required) ==
  FromPairs(<< <<W("name"), Str(W(name))>>, <<W("in"), Str(W(loc))>>,
               <<W("required"), Bool(required)>> >>)

OkResponses == Obj1("200", Obj1("description", Str(W("ok"))))
Summary(t) == Obj1("summary", Str(W(t)))

\* the entries a path item is made of: the eight methods, two other keys, and
\* a method whose operation object is empty
ItemEntries ==
  << <<W("get"), Obj1("responses", OkResponses)>>,
     <<W("put"), FromPairs(<< <<W("operationId"), Str(W("putIt"))>>,
                              <<W("parameters"), List(<<Param("q", "query", TRUE)>>)>> >>)>>,
     <<W("post"), FromPairs(<< <<W("requestBody"),
                                 Obj1("content", Obj1("json", Obj1("schema", Ref(RefB))))>>,
                               <<W("responses"),
                                 FromPairs(<< <<W("201"), Obj1("content",
                                                Obj1("json", Obj1("schema", Typed("string"))))>>,
                                              <<W("default"), EmptyDict>> >>)>> >>)>>,
     <<W("delete"), FromPairs(<< <<<<"x-clientify-", "raw">>, Bool(TRUE)>>,
                                 <<W("summary"), Str(W("drop"))>> >>)>>,
     <<W("options"), Summary("o")>>,
     <<W("head"), Summary("h")>>,
     <<W("patch"), Summary("p")>>,
     <<W("trace"), Summary("t")>>,
     <<W("parameters"), List(<<Param("q", "query", FALSE), Param("id", "path", TRUE)>>)>>,
     <<W("summary"), Str(W("item"))>>,
     <<W("head"), EmptyDict>> >>

\* the selections of 1..MaxKeys entries with distinct keys, in any order
Selections ==
  { sel \in UNION { [1..n -> 1..Len(ItemEntries)] : n \in 1..MaxKeys } :
      \A i, j \in DOMAIN sel : i # j => ItemEntries[sel[i]][1] # ItemEntries[sel[j]][1] }

ItemOf(sel) == FromPairs([i \in DOMAIN sel |-> ItemEntries[sel[i]]])

SecondItems ==
  { EmptyDict,
    FromPairs(<< ItemEntries[3], ItemEntries[1] >>) }

PathDocs ==
  { FromPairs(<<Version,
                <<W("paths"), FromPairs(<< <<<<"/", "a">>, ItemOf(sel)>>,
                                           <<<<"/", "b">>, second>> >>)>>,
                Components(Typed("object"), Typed("string"))>>) :
      sel \in Selections, second \in SecondItems }

\* a document with one path /a whose item has the entry (key, v)
PathsA(item) == <<W("paths"), Dict(<< <<"/", "a">> >>, <<item>>)>>
ItemDoc(key, v) == FromPairs(<<Version, PathsA(Obj1(key, v))>>)
\* a document with one operation get /a that has the entry (key, v)
OperationDoc(key, v) == ItemDoc("get", FromPairs(<< <<W("summary"), Str(W("s"))>>, <<W(key), v>> >>))

\* documents without $ref whose parts are absent, null or of another shape
\* than OpenAPI gives them
OddDocs ==
  { FromPairs(<<Version>>),
    FromPairs(<<Version, <<W("components"), EmptyDict>> >>),
    FromPairs(<<Version, <<W("components"), None>> >>),
    FromPairs(<<Version, <<W("components"), Obj1("schemas", None)>> >>),
    FromPairs(<<Version, <<W("components"), Obj1("schemas", EmptyList)>> >>),
    FromPairs(<<Version, <<W("paths"), None>> >>),
    FromPairs(<<Version, <<W("paths"), EmptyList>> >>),
    FromPairs(<<Version, PathsA(None)>>),
    FromPairs(<<Version, PathsA(EmptyDict)>>) }
  \cup { ItemDoc("get", v) : v \in {None, EmptyDict, Str(W("op")), Str(<<>>), Bool(TRUE),
                                     List(<<Summary("s")>>), Summary("s")} }
  \cup { ItemDoc("parameters", v) : v \in {None, EmptyList, Str(<<>>)} }
  \cup { OperationDoc("parameters", v) :
           v \in { None, Str(<<>>), Str(W("q")), EmptyDict, Num(W("1")), EmptyList,
                   List(<<None>>), List(<<Str(W("q"))>>), List(<<EmptyDict>>),
                   List(<<FromPairs(<< <<W("name"), List(<<Str(W("q"))>>)>>,
                                      <<W("in"), Str(W("query"))>> >>)>>),
                   List(<<FromPairs(<< <<W("name"), Str(W("q"))>>,
                                      <<W("in"), Obj1("a", None)>> >>)>>),
                   List(<<FromPairs(<< <<W("name"), EmptyList>>,
                                      <<W("in"), Str(W("query"))>> >>)>>),
                   List(<<FromPairs(<< <<W("name"), Str(W("q"))>>, <<W("in"), Str(W("query"))>>,
                                      <<W("content"), None>> >>)>>),
                   List(<<FromPairs(<< <<W("name"), Str(W("q"))>>, <<W("in"), Str(W("query"))>>,
                                      <<W("content"), Obj1("json", None)>> >>)>>),
                   List(<<FromPairs(<< <<W("name"), Str(W("q"))>>, <<W("in"), Str(W("query"))>>,
                                      <<W("content"), Obj1("json", EmptyDict)>> >>)>>),
                   List(<<Param("q", "query", TRUE), None>>) } }
  \cup { OperationDoc("requestBody", v) :
           v \in { None, EmptyDict, Str(W("body")), EmptyList, Obj1("required", Bool(TRUE)),
                   Obj1("content", None), Obj1("content", EmptyDict),
                   Obj1("content", Obj1("json", None)),
                   Obj1("content", Obj1("json", EmptyDict)) } }
  \cup { OperationDoc("responses", v) :
           v \in { None, EmptyDict, EmptyList, Obj1("200", None), Obj1("200", EmptyDict),
                   Obj1("200", Obj1("content", None)),
                   Obj1("200", Obj1("content", EmptyDict)),
                   FromPairs(<< <<W("404"), Obj1("description", Str(W("no")))>>,
                                <<W("200"), Obj1("content", Obj1("json", Typed("string")))>>,
                                <<W("default"), EmptyDict>> >>) } }

----------------------------------------------------------------------------
(* Python text.  What the generator writes is text, a TLA+ string; the     *)
(* strings of a JSON value are turned into text symbol by symbol.          *)

RECURSIVE Text(_)
\* the text of a string of symbols
Text(s) == IF Len(s) = 0 THEN "" ELSE Head(s) \o Text(Tail(s))

RECURSIVE Join(_, _)
\* sep.join(parts)
Join(sep, parts) ==
  IF Len(parts) = 0 THEN ""
  ELSE IF Len(parts) = 1 THEN parts[1]
  ELSE parts[1] \o sep \o Join(sep, Tail(parts))

\* the character i of the text t
CharAt(t, i) == SubSeq(t, i, i)
\* sub in t
Contains(t, sub) ==
  \E i \in 1..(Len(t) - Len(sub) + 1) : SubSeq(t, i, i + Len(sub) - 1) = sub
\* t.startswith(p), on text
TextStartsWith(t, p) == Len(t) >= Len(p) /\ SubSeq(t, 1, Len(p)) = p

RECURSIVE Escape(_, _)
\* repr of a str, inside the quotes: a backslash before each backslash and quote
Escape(t, q) ==
  IF Len(t) = 0 THEN ""
  ELSE IF CharAt(t, 1) = "\\" \/ CharAt(t, 1) = q
    THEN "\\" \o CharAt(t, 1) \o Escape(Tail(t), q)
    ELSE CharAt(t, 1) \o Escape(Tail(t), q)
\* repr(t) for a str of printable characters: single quotes, unless the text
\* has a single quote and no double quote
repr_str(t) ==
  LET q == IF Contains(t, "'") /\ ~Contains(t, "\"") THEN "\"" ELSE "'"
  IN q \o Escape(t, q) \o q

RECURSIVE repr(_)
\* repr(value) of a JSON value
repr(v) ==
  CASE v.k = "str" -> repr_str(Text(v.s))
    [] v.k = "num" -> Text(v.s)
    [] v.k = "bool" -> IF v.s = W("true") THEN "True" ELSE "False"
    [] v.k = "null" -> "None"
    [] v.k = "list" -> "[" \o Join(", ", [i \in 1..Len(v.e) |-> repr(v.e[i])]) \o "]"
    [] OTHER -> "{" \o Join(", ", [i \in 1..Len(v.e) |->
                                     repr_str(Text(v.keys[i])) \o ": " \o repr(v.e[i])])
                \o "}"

\* for x in v: the items, or ok = FALSE for TypeError (v is not iterable)
Iterate(v) ==
  CASE v.k = "list" -> [ok |-> TRUE, items |-> v.e]
    [] v.k = "obj" -> [ok |-> TRUE, items |-> [i \in 1..Len(v.keys) |-> Str(v.keys[i])]]
    [] v.k = "str" -> [ok |-> TRUE,
                       items |-> [i \in 1..Len(Text(v.s)) |-> Str(W(CharAt(Text(v.s), i)))]]
    [] OTHER -> [ok |-> FALSE, items |-> <<>>]

RECURSIVE KeepAll(_)
KeepAll(types) == IF Len(types) = 0 THEN <<>> ELSE <<Head(types)>> \o KeepAll(Tail(types))
RECURSIVE FromKeys(_)
\* list(dict.fromkeys(types)): the first occurrence of each, in order
FromKeys(types) ==
  IF Len(types) = 0 THEN <<>>
  ELSE LET front == FromKeys(SubSeq(types, 1, Len(types) - 1))
           last_one == types[Len(types)]
       IN IF \E i \in 1..Len(front) : front[i] = last_one THEN front
          ELSE Append(front, last_one)

----------------------------------------------------------------------------
(* generation/profile.py *)

\* (a, b) <= (c, d) on tuples
TupleLe(x, y) == x[1] < y[1] \/ (x[1] = y[1] /\ x[2] <= y[2])

\* GenerationProfile.from_version((major, minor))
from_version(target_version) ==
  IF TupleLe(target_version, <<3, 8>>) \/ target_version = <<3, 9>>
    THEN [use_future_annotations |-> TRUE, use_pep604 |-> FALSE,
          use_required |-> TRUE, use_typing_extensions |-> TRUE]
  ELSE IF target_version = <<3, 10>>
    THEN [use_future_annotations |-> TRUE, use_pep604 |-> TRUE,
          use_required |-> TRUE, use_typing_extensions |-> TRUE]
  ELSE [use_future_annotations |-> TRUE, use_pep604 |-> TRUE,
        use_required |-> TRUE, use_typing_extensions |-> FALSE]

\* the target versions of the runs
Versions == { <<3, 9>>, <<3, 10>>, <<3, 14>> }

----------------------------------------------------------------------------
(* generation/emitter.py: TypeEmitter                                      *)
(* self = [profile, quote_refs, imports]; a call gives [out, err, self]:   *)
(* the text returned, "" or the name of the exception raised, and the      *)
(* emitter after the call.                                                 *)

\* TypeEmitter(profile, quote_refs)
TypeEmitter(profile, quote_refs) ==
  [profile |-> profile, quote_refs |-> quote_refs, imports |-> {}]

Ret(self, out) == [out |-> out, err |-> "", self |-> self]
Throw(self, exc) == [out |-> "", err |-> exc, self |-> self]

\* self.imports.add(name)
AddImport(self, name) == [self EXCEPT !.imports = @ \cup {name}]

ensure_literal_flip(self) ==
  IF "Literal" \in self.imports THEN [self EXCEPT !.imports = @ \ {"Literal"}]
  ELSE AddImport(self, "Literal")
\* _ensure_literal
ensure_literal(self) == AddImport(self, "Literal")

\* _ref_name(ref): err is the exception a value that is no str raises
ref_name(ref) ==
  CASE ref.k = "str" ->
         Only({ [err |-> "", name |-> Text(parts[Len(parts)])] :
               parts \in {Split(ref.s, "/")} })
    [] ref.k \in {"list", "obj"} -> [err |-> "AttributeError", name |-> ""]
    [] OTHER -> [err |-> "TypeError", name |-> ""]

\* f"{name!r}" if self.quote_refs else name
Quoted(self, name) == IF self.quote_refs THEN repr_str(name) ELSE name

\* the branch of emit a dict takes, by the first key of the dict that selects one
BranchByKeyOrder(schema) ==
  LET selects(i) ==
        \/ schema.keys[i] = RefKey
        \/ schema.keys[i] = StampKey /\ IsStr(schema.e[i]) /\ Truthy(schema.e[i])
        \/ schema.keys[i] \in {W("oneOf"), W("anyOf"), W("allOf"), W("enum")}
           /\ Truthy(schema.e[i])
      firsts == { i \in 1..Len(schema.keys) :
                    selects(i) /\ \A j \in 1..(i - 1) : ~selects(j) }
  IN IF firsts = {} THEN "type"
     ELSE LET key == schema.keys[CHOOSE i \in firsts : TRUE]
          IN IF key = StampKey THEN "name" ELSE key[1]
\* lines 72-91: the branch of emit a dict takes
Branch(schema) ==
  IF DictHas(schema, RefKey) THEN "$ref"
  ELSE IF IsStr(DictGetOr(schema, StampKey, None)) /\ Truthy(DictGetOr(schema, StampKey, None))
    THEN "name"
  ELSE IF Truthy(DictGetOr(schema, W("oneOf"), None)) THEN "oneOf"
  ELSE IF Truthy(DictGetOr(schema, W("anyOf"), None)) THEN "anyOf"
  ELSE IF Truthy(DictGetOr(schema, W("allOf"), None)) THEN "allOf"
  ELSE IF Truthy(DictGetOr(schema, W("enum"), None)) THEN "enum"
  ELSE "type"

UnionOfTyping(self, unique) ==
  Ret(AddImport(self, "Union"), "Union[" \o Join(", ", unique) \o "]")
\* lines 172-177 of _emit_union, for two or more types
UnionOf(self, unique) ==
  IF self.profile.use_pep604 THEN Ret(self, Join(" | ", unique))
  ELSE Ret(AddImport(self, "Union"), "Union[" \o Join(", ", unique) \o "]")

RECURSIVE emit(_, _)
RECURSIVE EmitEach(_, _, _)

\* types = [self.emit(item) for item in items]: out is the list of types
EmitEach(self, items, types) ==
  IF Len(items) = 0 THEN [out |-> types, err |-> "", self |-> self]
  ELSE Only({
               IF r.err # "" THEN [out |-> types, err |-> r.err, self |-> r.self]
               ELSE EmitEach(r.self, Tail(items), Append(types, r.out)) :
             r \in {emit(self, Head(items))} })

\* lines 169-177 of _emit_union, on the types of the items
UnionOfTypes(self, types) ==
  Only({
          IF Len(unique) = 0 THEN Ret(self, "object")
          ELSE IF Len(unique) = 1 THEN Ret(self, unique[1])
          ELSE UnionOf(self, unique) :
        unique \in {FromKeys(types)} })

\* _emit_union
emit_union(self, items) ==
  Only({
          IF ~it.ok THEN Throw(self, "TypeError")
          ELSE Only({
                       IF types.err # "" THEN Throw(types.self, types.err)
                       ELSE UnionOfTypes(types.self, types.out) :
                     types \in {EmitEach(self, it.items, <<>>)} }) :
        it \in {Iterate(items)} })

\* _emit_all_of
emit_all_of(self, items) ==
  Only({
          IF ~it.ok THEN Throw(self, "TypeError")
          ELSE IF \E i \in 1..Len(it.items) : ~IsDict(it.items[i])
            THEN Throw(self, "AttributeError")
          ELSE IF \A i \in 1..Len(it.items) :
                    DictGetOr(it.items[i], W("type"), None) # Str(W("object"))
            THEN emit_union(self, items)
          ELSE Ret(self, "dict[str, object]") :
        it \in {Iterate(items)} })

\* lines 107-121 of emit: the type of a container of the values nested holds,
\* written opening[...]
emit_container(self, opening, nested) ==
  IF ~IsDict(nested) THEN Ret(self, opening \o "object]")
  ELSE Only({
               IF inner.err # "" THEN inner
               ELSE Ret(inner.self, opening \o inner.out \o "]") :
             inner \in {emit(self, nested)} })

\* lines 96-122 of emit: the type branch
emit_type(self, schema) ==
  Only({
          CASE schema_type = Str(W("null")) -> Ret(self, "None")
            [] schema_type = Str(W("string")) -> Ret(self, "str")
            [] schema_type = Str(W("integer")) -> Ret(self, "int")
            [] schema_type = Str(W("number")) -> Ret(self, "float")
            [] schema_type = Str(W("boolean")) -> Ret(self, "bool")
            [] schema_type = Str(W("array")) ->
                 emit_container(self, "list[", DictGetOr(schema, W("items"), None))
            [] schema_type = Str(W("object")) ->
                 emit_container(self, "dict[str, ",
                                DictGetOr(schema, W("additionalProperties"), None))
            [] OTHER -> Ret(self, "object") :
        schema_type \in {DictGetOr(schema, W("type"), None)} })

\* lines 90-94 of emit: the enum branch
emit_enum(self, enum_values) ==
  Only({
          IF ~it.ok THEN Throw(ensure_literal(self), "TypeError")
          ELSE Ret(ensure_literal(self),
                   "Literal[" \o Join(", ", [i \in 1..Len(it.items) |-> repr(it.items[i])])
                   \o "]") :
        it \in {Iterate(enum_values)} })

\* lines 72-122 of emit, for a dict, by its branch
emit_branch(self, schema, branch) ==
  CASE branch = "$ref" ->
         Only({
                 IF name.err # "" THEN Throw(self, name.err)
                 ELSE Ret(self, Quoted(self, name.name)) :
               name \in {ref_name(DictGet(schema, RefKey))} })
    [] branch = "name" -> Ret(self, Quoted(self, Text(DictGet(schema, StampKey).s)))
    [] branch = "allOf" -> emit_all_of(self, DictGet(schema, W("allOf")))
    [] branch = "enum" -> emit_enum(self, DictGet(schema, W("enum")))
    [] branch = "type" -> emit_type(self, schema)
    [] OTHER -> emit_union(self, DictGet(schema, W(branch)))

\* emit(schema)
emit(self, schema) ==
  CASE schema.k = "null" -> Ret(self, "object")
    [] schema.k \in {"bool", "num"} -> Throw(self, "TypeError")
    [] schema.k = "str" ->
         Throw(self, IF \E i \in 1..Len(schema.s) : schema.s[i] = "$ref"
                       THEN "TypeError" ELSE "AttributeError")
    [] schema.k = "list" ->
         Throw(self, IF \E i \in 1..Len(schema.e) : schema.e[i] = Str(RefKey)
                       THEN "TypeError" ELSE "AttributeError")
    [] OTHER -> emit_branch(self, schema, Branch(schema))

\* apply_nullable(base, schema)
apply_nullable(self, base, schema) ==
  IF ~Truthy(schema) THEN Ret(self, base)
  ELSE IF ~IsDict(schema) THEN Throw(self, "AttributeError")
  ELSE IF ~Truthy(DictGetOr(schema, W("nullable"), None)) THEN Ret(self, base)
  ELSE IF self.profile.use_pep604 THEN Ret(self, base \o " | None")
  ELSE Ret(AddImport(self, "Optional"), "Optional[" \o base \o "]")

----------------------------------------------------------------------------
(* generation/type_emitter.py: the class the package exports as            *)
(* clientify.TypeEmitter.  An emitter is the same record as in emitter.py. *)

\* _ensure_literal
te_ensure_literal(self) == AddImport(self, "Literal")

\* _ref_name(ref): both branches return ref.split("/")[-1]
te_ref_name(ref) ==
  CASE ref.k = "str" ->
         Only({ [err |-> "", name |-> Text(parts[Len(parts)])] :
               parts \in {Split(ref.s, "/")} })
    [] ref.k \in {"list", "obj"} -> [err |-> "AttributeError", name |-> ""]
    [] OTHER -> [err |-> "TypeError", name |-> ""]

\* lines 19-38: the branch of emit a dict takes
te_Branch(schema) ==
  IF DictHas(schema, RefKey) THEN "$ref"
  ELSE IF IsStr(DictGetOr(schema, StampKey, None)) /\ Truthy(DictGetOr(schema, StampKey, None))
    THEN "name"
  ELSE IF Truthy(DictGetOr(schema, W("oneOf"), None)) THEN "oneOf"
  ELSE IF Truthy(DictGetOr(schema, W("anyOf"), None)) THEN "anyOf"
  ELSE IF Truthy(DictGetOr(schema, W("allOf"), None)) THEN "allOf"
  ELSE IF Truthy(DictGetOr(schema, W("enum"), None)) THEN "enum"
  ELSE "type"

RECURSIVE te_emit(_, _)
RECURSIVE te_EmitEach(_, _, _)

\* types = [self.emit(item) for item in items]: out is the list of types
te_EmitEach(self, items, types) ==
  IF Len(items) = 0 THEN [out |-> types, err |-> "", self |-> self]
  ELSE Only({
               IF r.err # "" THEN [out |-> types, err |-> r.err, self |-> r.self]
               ELSE te_EmitEach(r.self, Tail(items), Append(types, r.out)) :
             r \in {te_emit(self, Head(items))} })

\* lines 88-95 of _emit_union, on the types of the items
te_UnionOfTypes(self, types) ==
  Only({
          IF Len(unique) = 0 THEN Ret(self, "object")
          ELSE IF Len(unique) = 1 THEN Ret(self, unique[1])
          ELSE IF self.profile.use_pep604 THEN Ret(self, Join(" | ", unique))
          ELSE Ret(AddImport(self, "Union"), "Union[" \o Join(", ", unique) \o "]") :
        unique \in {FromKeys(types)} })

\* _emit_union
te_emit_union(self, items) ==
  Only({
          IF ~it.ok THEN Throw(self, "TypeError")
          ELSE Only({
                       IF types.err # "" THEN Throw(types.self, types.err)
                       ELSE te_UnionOfTypes(types.self, types.out) :
                     types \in {te_EmitEach(self, it.items, <<>>)} }) :
        it \in {Iterate(items)} })

\* _emit_all_of
te_emit_all_of(self, items) ==
  Only({
          IF ~it.ok THEN Throw(self, "TypeError")
          ELSE IF \E i \in 1..Len(it.items) : ~IsDict(it.items[i])
            THEN Throw(self, "AttributeError")
          ELSE IF \A i \in 1..Len(it.items) :
                    DictGetOr(it.items[i], W("type"), None) # Str(W("object"))
            THEN te_emit_union(self, items)
          ELSE Ret(self, "dict[str, object]") :
        it \in {Iterate(items)} })

\* lines 52-66 of emit: the type of a container of the values nested holds
te_emit_container(self, opening, nested) ==
  IF ~IsDict(nested) THEN Ret(self, opening \o "object]")
  ELSE Only({
               IF inner.err # "" THEN inner
               ELSE Ret(inner.self, opening \o inner.out \o "]") :
             inner \in {te_emit(self, nested)} })

\* lines 42-67 of emit: the type branch
te_emit_type(self, schema) ==
  Only({
          CASE schema_type = Str(W("string")) -> Ret(self, "str")
            [] schema_type = Str(W("integer")) -> Ret(self, "int")
            [] schema_type = Str(W("number")) -> Ret(self, "float")
            [] schema_type = Str(W("boolean")) -> Ret(self, "bool")
            [] schema_type = Str(W("array")) ->
                 te_emit_container(self, "list[", DictGetOr(schema, W("items"), None))
            [] schema_type = Str(W("object")) ->
                 te_emit_container(self, "dict[str, ",
                                   DictGetOr(schema, W("additionalProperties"), None))
            [] OTHER -> Ret(self, "object") :
        schema_type \in {DictGetOr(schema, W("type"), None)} })

\* lines 36-40 of emit: the enum branch
te_emit_enum(self, enum_values) ==
  Only({
          IF ~it.ok THEN Throw(te_ensure_literal(self), "TypeError")
          ELSE Ret(te_ensure_literal(self),
                   "Literal[" \o Join(", ", [i \in 1..Len(it.items) |-> repr(it.items[i])])
                   \o "]") :
        it \in {Iterate(enum_values)} })

\* lines 19-67 of emit, for a dict, by its branch
te_emit_branch(self, schema, branch) ==
  CASE branch = "$ref" ->
         Only({
                 IF name.err # "" THEN Throw(self, name.err)
                 ELSE Ret(self, Quoted(self, name.name)) :
               name \in {te_ref_name(DictGet(schema, RefKey))} })
    [] branch = "name" -> Ret(self, Quoted(self, Text(DictGet(schema, StampKey).s)))
    [] branch = "allOf" -> te_emit_all_of(self, DictGet(schema, W("allOf")))
    [] branch = "enum" -> te_emit_enum(self, DictGet(schema, W("enum")))
    [] branch = "type" -> te_emit_type(self, schema)
    [] OTHER -> te_emit_union(self, DictGet(schema, W(branch)))

\* TypeEmitter.emit of type_emitter.py
te_emit(self, schema) ==
  CASE schema.k = "null" -> Ret(self, "object")
    [] schema.k \in {"bool", "num"} -> Throw(self, "TypeError")
    [] schema.k = "str" ->
         Throw(self, IF \E i \in 1..Len(schema.s) : schema.s[i] = "$ref"
                       THEN "TypeError" ELSE "AttributeError")
    [] schema.k = "list" ->
         Throw(self, IF \E i \in 1..Len(schema.e) : schema.e[i] = Str(RefKey)
                       THEN "TypeError" ELSE "AttributeError")
    [] OTHER -> te_emit_branch(self, schema, te_Branch(schema))

\* TypeEmitter.apply_nullable of type_emitter.py
te_apply_nullable(self, base, schema) ==
  IF ~Truthy(schema) THEN Ret(self, base)
  ELSE IF ~IsDict(schema) THEN Throw(self, "AttributeError")
  ELSE IF ~Truthy(DictGetOr(schema, W("nullable"), None)) THEN Ret(self, base)
  ELSE IF self.profile.use_pep604 THEN Ret(self, base \o " | None")
  ELSE Ret(AddImport(self, "Optional"), "Optional[" \o base \o "]")

----------------------------------------------------------------------------
(* generation/models.py                                                    *)
(* A function that emits gives [lines, err, self].                         *)

\* the characters \w matches, for ASCII text
WordChars ==
  { "a", "b", "c", "d", "e", "f", "g", "h", "i", "j", "k", "l", "m", "n", "o", "p", "q",
    "r", "s", "t", "u", "v", "w", "x", "y", "z", "A", "B", "C", "D", "E", "F", "G", "H",
    "I", "J", "K", "L", "M", "N", "O", "P", "Q", "R", "S", "T", "U", "V", "W", "X", "Y",
    "Z", "0", "1", "2", "3", "4", "5", "6", "7", "8", "9", "_" }

RECURSIVE SubObject(_, _)
\* re.sub(r"\bobject\b", "JsonValue", t), from character i on
SubObject(t, i) ==
  IF i > Len(t) THEN ""
  ELSE IF /\ i + 5 <= Len(t)
          /\ SubSeq(t, i, i + 5) = "object"
          /\ (i = 1 \/ CharAt(t, i - 1) \notin WordChars)
          /\ (i + 6 > Len(t) \/ CharAt(t, i + 6) \notin WordChars)
    THEN "JsonValue" \o SubObject(t, i + 6)
    ELSE CharAt(t, i) \o SubObject(t, i + 1)

\* _replace_object_with_json_value
replace_object_with_json_value(type_str) ==
  IF type_str = "object" THEN "JsonValue" ELSE SubObject(type_str, 1)

RECURSIVE UpdateKeepFirst(_, _)
\* for key, v in other.items(): d.setdefault(key, v)
UpdateKeepFirst(d, other) ==
  IF Len(other.keys) = 0 THEN d
  ELSE UpdateKeepFirst(DictSetDefault(d, other.keys[1], other.e[1]),
                       Dict(Tail(other.keys), Tail(other.e)))
RECURSIVE Update(_, _)
\* d.update(other)
Update(d, other) ==
  IF Len(other.keys) = 0 THEN d
  ELSE Update(DictSet(d, other.keys[1], other.e[1]), Dict(Tail(other.keys), Tail(other.e)))

RECURSIVE MergeMembers(_, _)
\* lines 186-209: the loop of _merge_all_of; ok = FALSE stands for return None
MergeMembers(schemas, acc) ==
  IF Len(schemas) = 0 THEN acc
  ELSE LET schema == Head(schemas)
           properties == DictGetOr(schema, W("properties"), None)
           required == DictGetOr(schema, W("required"), None)
           schema_additional == DictGetOr(schema, W("additionalProperties"), None)
       IN IF ~IsDict(schema) THEN [acc EXCEPT !.ok = FALSE]
          ELSE IF DictGetOr(schema, W("type"), None) \notin {Str(W("object")), None}
            THEN [acc EXCEPT !.ok = FALSE]
          ELSE MergeMembers(Tail(schemas),
                 [ok |-> TRUE,
                  properties |-> IF IsDict(properties) THEN Update(acc.properties, properties)
                                 ELSE acc.properties,
                  required |-> IF IsList(required) THEN acc.required \o required.e
                               ELSE acc.required,
                  additional |-> IF schema_additional = Bool(FALSE) THEN Bool(FALSE)
                                 ELSE IF acc.additional = None /\ schema_additional # None
                                   THEN schema_additional
                                 ELSE acc.additional])

\* lines 211-225 of _merge_all_of, on what the loop collected
MergedSchema(m) ==
  LET typed == FromPairs(<< <<W("type"), Str(W("object"))>>,
                            <<W("properties"), m.properties>> >>)
      with_required == IF Len(m.required) = 0 THEN typed
                       ELSE DictSet(typed, W("required"), List(FromKeys(m.required)))
  IN IF ~m.ok \/ ~Truthy(m.properties) THEN None
     ELSE IF m.additional = None THEN with_required
     ELSE DictSet(with_required, W("additionalProperties"), m.additional)

\* _merge_all_of: None for no merge.  list(set(merged_required)) has each name
\* once, in an order the only reader, set(...) of _emit_typed_dict, does not see.
merge_all_of(schemas) ==
  MergedSchema(MergeMembers(schemas.e, [ok |-> TRUE, properties |-> EmptyDict,
                                        required |-> <<>>, additional |-> None]))

Lines(self, lines) == [lines |-> lines, err |-> "", self |-> self]
NoLines(self, exc) == [lines |-> <<>>, err |-> exc, self |-> self]

\* lines 146-150 of _typed_dict_items: the item of one property
TypedDictItem(prop_name, nullable_type, required_set) ==
  Only({
          "        " \o repr_str(Text(prop_name)) \o ": "
          \o (IF Str(prop_name) \in required_set
                THEN "Required[" \o prop_type \o "]" ELSE prop_type)
          \o "," :
        prop_type \in {replace_object_with_json_value(nullable_type)} })

\* emitter.apply_nullable(emitter.emit(schema), schema)
EmitNullable(self, schema) ==
  Only({
          IF emitted.err # "" THEN emitted
          ELSE apply_nullable(emitted.self, emitted.out, schema) :
        emitted \in {emit(self, schema)} })

RECURSIVE typed_dict_items(_, _, _, _)
\* _typed_dict_items: the items of the properties i.. after the items so far
typed_dict_items(self, properties, required_set, i) ==
  IF i > Len(properties.keys) THEN Lines(self, <<>>)
  ELSE Only({
               IF nullable.err # "" THEN NoLines(nullable.self, nullable.err)
               ELSE Only({
                            IF rest.err # "" THEN rest
                            ELSE Lines(rest.self,
                                       <<TypedDictItem(properties.keys[i], nullable.out,
                                                       required_set)>>
                                       \o rest.lines) :
                          rest \in {typed_dict_items(nullable.self, properties, required_set, i + 1)} }) :
             nullable \in {EmitNullable(self, properties.e[i])} })

\* lines 96-99 of _emit_typed_dict: the required names, less those with a default
RequiredSet(required, properties) ==
  { r \in { required[i] : i \in 1..Len(required) } :
      ~\E i \in 1..Len(properties.keys) :
          /\ Str(properties.keys[i]) = r
          /\ IsDict(properties.e[i])
          /\ DictHas(properties.e[i], W("default")) }

\* lines 100-116 of _emit_typed_dict, for the required names
TypedDictLines(self, name, schema, properties, required_set) ==
  LET closed == DictGetOr(schema, W("additionalProperties"), None) = Bool(FALSE)
      total == IF closed /\ Cardinality(required_set) = Len(properties.keys)
                 THEN "    total=True," ELSE "    total=False,"
  IN Only({
             IF items.err # "" THEN items
             ELSE Lines(items.self,
                        <<Text(name) \o " = TypedDict(",
                          "    " \o repr_str(Text(name)) \o ",", "    {">>
                        \o items.lines
                        \o <<"    },", total, ")", "">>) :
           items \in {typed_dict_items(self, properties, required_set, 1)} })

\* _emit_typed_dict
emit_typed_dict(self, name, schema) ==
  LET properties == DictGetOr(schema, W("properties"), EmptyDict)
  IN Only({
             IF ~required.ok
                  \/ \E i \in 1..Len(required.items) :
                       required.items[i].k \in {"list", "obj"}
               THEN NoLines(self, "TypeError")
             ELSE IF ~IsDict(properties) THEN NoLines(self, "AttributeError")
             ELSE TypedDictLines(self, name, schema, properties,
                                 RequiredSet(required.items, properties)) :
           required \in {Iterate(DictGetOr(schema, W("required"), EmptyList))} })

\* _emit_alias
emit_alias(self, name, schema) ==
  Only({
          IF nullable.err # "" THEN NoLines(nullable.self, nullable.err)
          ELSE Lines(nullable.self,
                     <<Text(name) \o " = " \o replace_object_with_json_value(nullable.out),
                       "">>) :
        nullable \in {EmitNullable(self, schema)} })

\* SchemaIR(name, schema)
SchemaIR(name, schema) == [name |-> name, schema |-> schema]

\* lines 72-86 of _emit_schema: the schema a TypedDict is emitted from, None for
\* an alias
TypedDictSchema(schema) ==
  LET all_of == DictGetOr(schema, W("allOf"), None)
      object_with_properties(s) ==
        /\ DictGetOr(s, W("type"), None) = Str(W("object"))
        /\ Truthy(DictGetOr(s, W("properties"), None))
  IN Only({
             IF Truthy(merged_schema) /\ object_with_properties(merged_schema)
               THEN merged_schema
             ELSE IF object_with_properties(schema) THEN schema
             ELSE None :
           merged_schema \in {IF Truthy(all_of) /\ IsList(all_of) THEN merge_all_of(all_of) ELSE None} })

\* _emit_schema
emit_schema(self, schema_ir) ==
  LET schema == schema_ir.schema
      name == schema_ir.name
  IN IF schema.k = "bool" THEN Lines(self, <<Text(name) \o " = JsonValue", "">>)
     ELSE IF ~IsDict(schema) THEN NoLines(self, "AttributeError")
     ELSE Only({
                  IF typed_dict_schema # None
                    THEN emit_typed_dict(self, name, typed_dict_schema)
                  ELSE emit_alias(self, name, schema) :
                typed_dict_schema \in {TypedDictSchema(schema)} })

\* sorted(emitter.imports): the names the emitter adds, in sorted order
SortedImports(imports) ==
  SelectSeq(<<"Literal", "Optional", "Union">>, LAMBDA name : name \in imports)

\* _render_imports
render_imports(self) ==
  IF self.imports = {} THEN ""
  ELSE "from typing import " \o Join(", ", SortedImports(self.imports))

RECURSIVE rstrip(_)
\* t.rstrip()
rstrip(t) ==
  IF Len(t) = 0 THEN t
  ELSE IF CharAt(t, Len(t)) \in {" ", "\n", "\t", "\r"} THEN rstrip(SubSeq(t, 1, Len(t) - 1))
  ELSE t

RECURSIVE EmitSchemas(_, _)
\* lines 39-43 of generate_models: the loop over the schemas
EmitSchemas(self, schemas) ==
  IF Len(schemas) = 0 THEN Lines(self, <<>>)
  ELSE Only({
               IF schema_output.err # "" THEN schema_output
               ELSE Only({
                            IF rest.err # "" THEN rest
                            ELSE Lines(rest.self, schema_output.lines \o rest.lines) :
                          rest \in {EmitSchemas(schema_output.self, Tail(schemas))} }) :
             schema_output \in {emit_schema(self, Head(schemas))} })

\* lines 26-37 of generate_models: the lines before the schemas
HeaderLines(model_profile) ==
  (IF model_profile.use_future_annotations
     THEN <<"from __future__ import annotations">> ELSE <<>>)
  \o <<IF model_profile.use_typing_extensions
         THEN "from typing_extensions import Required, TypedDict"
         ELSE "from typing import Required, TypedDict">>

\* lines 45-54 of generate_models: the module, from the lines of the schemas
ModuleCode(lines, schema_lines) ==
  LET needs_json_value == \E i \in 1..Len(schema_lines.lines) :
                            Contains(schema_lines.lines[i], "JsonValue")
      imports == render_imports(schema_lines.self)
      insert_at == IF TextStartsWith(lines[1], "from __future__") THEN 1 ELSE 0
      with_imports == IF imports = "" THEN lines
                      ELSE SubSeq(lines, 1, insert_at) \o <<imports>>
                           \o SubSeq(lines, insert_at + 1, Len(lines))
  IN rstrip(Join("\n", with_imports
                         \o (IF needs_json_value THEN <<"from .types import JsonValue">>
                             ELSE <<>>)
                         \o schema_lines.lines))
     \o "\n"

\* generate_models(schemas, profile): [code, err]
generate_models(schemas, profile) ==
  LET model_profile == [use_future_annotations |-> profile.use_future_annotations,
                        use_pep604 |-> FALSE,
                        use_required |-> TRUE,
                        use_typing_extensions |-> profile.use_typing_extensions]
  IN Only({
             IF schema_lines.err # "" THEN [code |-> "", err |-> schema_lines.err]
             ELSE [code |-> ModuleCode(HeaderLines(model_profile), schema_lines),
                   err |-> ""] :
           schema_lines \in {EmitSchemas(TypeEmitter(model_profile, TRUE), schemas)} })

----------------------------------------------------------------------------
(* Schema nodes, for the type emitter and the models *)

MaxItems == 2

\* the lists of 1..MaxItems elements of S
ListsOver(S) == UNION { [1..n -> S] : n \in 1..MaxItems }

NullableOf(t) == FromPairs(<< <<W("type"), Str(W(t))>>, <<W("nullable"), Bool(TRUE)>> >>)

\* the members of a oneOf, anyOf or allOf list
Members ==
  { Typed("string"), Typed("integer"), Typed("null"), Typed("object"),
    NullableOf("string"),
    Obj1("enum", List(<<Str(W("a"))>>)),
    Obj1("oneOf", List(<<Typed("string"), Typed("integer")>>)),
    Bool(TRUE) }

UnionNodes ==
  { Obj1(key, List(ms)) : key \in {"oneOf", "anyOf", "allOf"}, ms \in ListsOver(Members) }

EnumValues ==
  { Str(W("a")), Str(W("b")), Str(<<"it", "'", "s">>), Num(W("1")), Bool(TRUE), None }

EnumNodes == { Obj1("enum", List(vs)) : vs \in ListsOver(EnumValues) }

\* the fields a node is made of
FieldEntries ==
  << <<RefKey, Str(SchemaRef("A"))>>,
     <<StampKey, Str(W("B"))>>,
     <<W("oneOf"), List(<<Typed("string"), Typed("integer")>>)>>,
     <<W("anyOf"), List(<<Typed("string"), Typed("null")>>)>>,
     <<W("allOf"), List(<<Typed("object"), Typed("object")>>)>>,
     <<W("enum"), List(<<Str(W("a")), Str(W("b"))>>)>>,
     <<W("type"), Str(W("string"))>>,
     <<W("oneOf"), EmptyList>>,
     <<W("enum"), EmptyList>>,
     <<StampKey, Str(<<>>)>>,
     <<W("nullable"), Bool(TRUE)>>,
     <<W("type"), List(<<Str(W("string")), Str(W("number"))>>)>>,
     <<W("type"), Str(W("array"))>>,
     <<W("items"), NullableOf("string")>>,
     <<W("type"), Str(W("object"))>>,
     <<W("additionalProperties"), NullableOf("integer")>> >>

\* the nodes of one field, and of two fields with distinct keys in either order
FieldNodes ==
  { FromPairs(<<FieldEntries[i]>>) : i \in 1..Len(FieldEntries) }
  \cup { FromPairs(<<FieldEntries[ij[1]], FieldEntries[ij[2]]>>) :
           ij \in { xy \in (1..Len(FieldEntries)) \X (1..Len(FieldEntries)) :
                      FieldEntries[xy[1]][1] # FieldEntries[xy[2]][1] } }

\* what emit is called with: a schema object, a boolean schema, or None
Nodes ==
  FieldNodes \cup UnionNodes \cup EnumNodes
  \cup { EmptyDict, Bool(TRUE), Bool(FALSE), None,
         Obj1("oneOf", List(<<NullableOf("string"), NullableOf("string")>>)),
         Obj1("oneOf", List(<<Typed("string"), Typed("integer"), Typed("string")>>)),
         FromPairs(<< <<W("type"), Str(W("array"))>>,
                      <<W("items"), Obj1("enum", List(<<Str(W("a")), Str(W("a"))>>))>> >>),
         FromPairs(<< <<W("type"), Str(W("integer"))>>, <<W("oneOf"), EmptyList>>,
                      <<StampKey, Str(<<>>)>>, <<W("enum"), EmptyList>> >>),
         FromPairs(<< <<W("type"), Str(W("integer"))>>,
                      <<W("enum"), List(<<Num(W("1"))>>)>>,
                      <<W("anyOf"), List(<<Typed("string"), Typed("null")>>)>>,
                      <<W("oneOf"), EmptyList>> >>) }

\* the nodes emitted first on an emitter: between them they add every import
Warmups ==
  { Typed("string"), NullableOf("string"),
    Obj1("enum", List(<<Str(W("a"))>>)),
    Obj1("oneOf", List(<<Typed("string"), Typed("integer")>>)) }

\* the nodes of the next call: any node while only warm-up nodes were emitted,
\* then the node of the previous call again
Emittable(previous) ==
  IF previous.op = "" \/ previous.schema \in Warmups THEN Nodes ELSE {previous.schema}

Property(name, schema) == <<W(name), schema>>

\* an object schema with the properties and the required names given
ObjectSchema(typed, properties, required) ==
  FromPairs((IF typed THEN << <<W("type"), Str(W("object"))>> >> ELSE <<>>)
            \o << <<W("properties"), FromPairs(properties)>> >>
            \o (IF Len(required) = 0 THEN <<>>
                ELSE << <<W("required"), List([i \in 1..Len(required) |-> Str(W(required[i]))])>> >>))

\* the members of the allOf of a named schema
ModelMembers ==
  { ObjectSchema(TRUE, <<Property("id", Typed("integer"))>>, <<"id">>),
    ObjectSchema(TRUE, <<Property("name", Typed("string"))>>, <<"name">>),
    ObjectSchema(FALSE, <<Property("id", Typed("string")),
                          Property("tag", NullableOf("string"))>>, <<>>),
    ObjectSchema(TRUE, <<Property("name", FromPairs(<< <<W("type"), Str(W("string"))>>,
                                                       <<W("default"), Str(W("x"))>> >>))>>,
                 <<"name">>),
    FromPairs(<< <<W("type"), Str(W("object"))>>,
                 <<W("additionalProperties"), Bool(FALSE)>> >>),
    Typed("string") }

\* the named schemas generate_models is given
NamedSchemas ==
  { SchemaIR(W("Merged"), Obj1("allOf", List(ms))) : ms \in ListsOver(ModelMembers) }
  \cup { SchemaIR(W("Plain"), s) :
           s \in ModelMembers \cup { Bool(TRUE), NullableOf("string"), EmptyDict,
                                     Obj1("enum", List(<<Str(W("object"))>>)) } }

\* the lists of schemas of one run
SchemaLists ==
  { <<s>> : s \in NamedSchemas }
  \cup { << SchemaIR(W("Plain"), ObjectSchema(TRUE, <<Property("id", Typed("integer"))>>, <<"id">>)),
            s >> :
           s \in { SchemaIR(W("Merged"), Obj1("allOf", List(ms))) : ms \in ListsOver(ModelMembers) } }

----------------------------------------------------------------------------
(* The program *)

MaxCalls == 2

SourceFiles ==
  { <<W("w"), W("spec.json")>>, <<W("w"), W("noversion.json")>>,
    <<W("w"), W("list.json")>>, <<W("w"), W("gone.json")>> }

\* OpenAPISource: a mapping held in memory, or the path of a file
Sources ==
  { [kind |-> "mapping", doc |-> d, path |-> <<>>] :
      d \in RefDocs \cup BadVersionDocs \cup PathDocs \cup CycleDocs \cup OddDocs
              \cup DeepDocs }
  \cup { [kind |-> "path", doc |-> None, path |-> p] : p \in SourceFiles }

VARIABLES source, pc, entry, document, base_path, st, result, calls, ir,
          emitter, last, models, mem

vars == <<source, pc, entry, document, base_path, st, result, calls, ir,
          emitter, last, models, mem>>

\* what the loading and the generation work on
loading == <<source, document, base_path, st, result, calls, ir>>
generation == <<emitter, last, models>>

\* the objects of a resolver: the heap and the resolver's caches (hs), the
\* caller's document (root), the tree the last pass returned (out), and the
\* heap and the document cache as the last pass found them
NoMem == [hs |-> NewHeapState, root |-> None, out |-> None, before |-> <<>>,
          docsBefore |-> EmptyMap]

\* no emitter made, no call made, no models generated
NoEmitter == [profile |-> from_version(<<3, 14>>), quote_refs |-> FALSE, imports |-> {}]
NoCall == [op |-> "", schema |-> None, base |-> "", before |-> {}, out |-> "", err |-> ""]
NoModels == [schemas |-> <<>>, profile |-> from_version(<<3, 14>>), code |-> "", err |-> ""]

Init ==
  /\ source \in Sources
  /\ pc = "start"
  /\ entry = ""
  /\ document = None
  /\ base_path = NoBase
  /\ st = NewState
  /\ result = None
  /\ calls = 0
  /\ ir = NoIR
  /\ emitter = NoEmitter
  /\ last = NoCall
  /\ models = NoModels
  /\ mem = NoMem

\* _read_source, for a mapping and for a file path
read_source(src) ==
  IF src.kind = "mapping" THEN [err |-> "", document |-> src.doc, base |-> NoBase]
  ELSE IF src.path \notin DOMAIN Files
    THEN [err |-> "FileNotFoundError", document |-> None, base |-> NoBase]
  ELSE IF ~IsDict(Files[src.path])
    THEN [err |-> "SpecError", document |-> None, base |-> NoBase]
  ELSE [err |-> "", document |-> Files[src.path], base |-> Base(Parent(src.path))]

\* lines 32-36 of load_openapi: "" or the exception raised
ValidateNothing(doc) == ""
Validate(doc) ==
  IF ~IsDict(doc) THEN "SpecError"
  ELSE IF ~IsStr(DictGetOr(doc, W("openapi"), None)) THEN "SpecError"
  ELSE ""

\* one call of resolver.resolve() starting from the resolver state s
Pass(doc, base, s) ==
  resolve(doc, base, [s EXCEPT !.err = "", !.reads = <<>>, !.met = {},
                                !.depth = 0, !.deepest = 0])

Finish(r) ==
  /\ st' = r.st
  /\ result' = r.v
  /\ pc' = IF r.st.err = "" THEN "resolved" ELSE "failed"

\* load_openapi(source)
LoadOpenapi ==
  /\ pc = "start"
  /\ entry' = "load_openapi"
  /\ LET rs == read_source(source)
         bad == IF rs.err # "" THEN rs.err ELSE Validate(rs.document)
     IN IF bad # ""
          THEN /\ Finish(Raise(NewState, bad))
               /\ UNCHANGED <<document, base_path, calls>>
          ELSE /\ document' = rs.document
               /\ base_path' = rs.base
               /\ calls' = 1
               /\ Finish(Pass(rs.document, rs.base, NewState))
  /\ UNCHANGED <<source, ir>>
  /\ UNCHANGED generation
  /\ UNCHANGED mem

\* resolve_refs(document, None)
ResolveRefs ==
  /\ pc = "start"
  /\ source.kind = "mapping"
  /\ entry' = "resolve_refs"
  /\ document' = source.doc
  /\ base_path' = NoBase
  /\ calls' = 1
  /\ Finish(Pass(source.doc, NoBase, NewState))
  /\ UNCHANGED <<source, ir>>
  /\ UNCHANGED generation
  /\ UNCHANGED mem

\* resolver = RefResolver(document, None)
NewRefResolver ==
  /\ pc = "start"
  /\ source.kind = "mapping"
  /\ entry' = "RefResolver"
  /\ document' = source.doc
  /\ base_path' = NoBase
  /\ st' = NewState
  /\ pc' = "constructed"
  /\ UNCHANGED <<source, result, calls, ir>>
  /\ UNCHANGED generation
  /\ UNCHANGED mem

\* resolver.resolve(), on a resolver made before
Resolve ==
  /\ entry = "RefResolver"
  /\ pc \in {"constructed", "resolved", "failed"}
  /\ calls < MaxCalls
  /\ calls' = calls + 1
  /\ Finish(Pass(document, base_path, st))
  /\ UNCHANGED <<source, entry, document, base_path, ir>>
  /\ UNCHANGED generation
  /\ UNCHANGED mem

\* build_ir(document), on the document a resolution returned
BuildIr ==
  /\ pc = "resolved"
  /\ IsDict(result)
  /\ ir' = IF build_ir_raises(result) # ""
             THEN [NoIR EXCEPT !.err = build_ir_raises(result)]
             ELSE [schemas |-> build_ir(result).schemas,
                   operations |-> build_ir(result).operations, err |-> ""]
  /\ pc' = IF build_ir_raises(result) # "" THEN "build_failed" ELSE "built"
  /\ UNCHANGED <<source, entry, document, base_path, st, result, calls>>
  /\ UNCHANGED generation
  /\ UNCHANGED mem

Next == LoadOpenapi \/ ResolveRefs \/ NewRefResolver \/ Resolve \/ BuildIr

Spec == Init /\ [][Next]_vars

----------------------------------------------------------------------------
(* The generation: one TypeEmitter and the calls made on it, or one run of *)
(* generate_models.                                                        *)

NoSource == [kind |-> "none", doc |-> None, path |-> <<>>]

InitEmit ==
  /\ source = NoSource
  /\ pc = "start"
  /\ entry = ""
  /\ document = None
  /\ base_path = NoBase
  /\ st = NewState
  /\ result = None
  /\ calls = 0
  /\ ir = NoIR
  /\ emitter = NoEmitter
  /\ last = NoCall
  /\ models = NoModels
  /\ mem = NoMem

\* emitter = TypeEmitter(GenerationProfile.from_version(version), quote_refs)
NewTypeEmitter ==
  /\ pc = "start"
  /\ \E version \in Versions, quote_refs \in BOOLEAN :
       emitter' = TypeEmitter(from_version(version), quote_refs)
  /\ entry' = "TypeEmitter"
  /\ pc' = "emitting"
  /\ UNCHANGED <<last, models>>
  /\ UNCHANGED loading
  /\ UNCHANGED mem

\* emitter.emit(schema)
Emit ==
  /\ pc = "emitting"
  /\ \E schema \in Emittable(last) :
       LET r == emit(emitter, schema)
       IN /\ emitter' = r.self
          /\ last' = [op |-> "emit", schema |-> schema, base |-> "",
                      before |-> emitter.imports, out |-> r.out, err |-> r.err]
  /\ UNCHANGED <<pc, entry, models>>
  /\ UNCHANGED loading
  /\ UNCHANGED mem

\* base = emitter.apply_nullable(base, schema), on what emit(schema) returned
\* (models.py:125-126, 145-146)
ApplyNullable ==
  /\ pc = "emitting"
  /\ last.op = "emit"
  /\ last.err = ""
  /\ LET r == apply_nullable(emitter, last.out, last.schema)
     IN /\ emitter' = r.self
        /\ last' = [last EXCEPT !.op = "apply_nullable", !.base = last.out,
                                !.out = r.out, !.err = r.err]
  /\ UNCHANGED <<pc, entry, models>>
  /\ UNCHANGED loading
  /\ UNCHANGED mem

\* generate_models(schemas, GenerationProfile.from_version(version))
GenerateModels ==
  /\ pc = "start"
  /\ \E version \in Versions, schemas \in SchemaLists :
       LET r == generate_models(schemas, from_version(version))
       IN models' = [schemas |-> schemas, profile |-> from_version(version),
                     code |-> r.code, err |-> r.err]
  /\ entry' = "generate_models"
  /\ pc' = "generated"
  /\ UNCHANGED <<emitter, last>>
  /\ UNCHANGED loading
  /\ UNCHANGED mem

\* emitter = clientify.TypeEmitter(GenerationProfile.from_version(version),
\* quote_refs): the class of generation/type_emitter.py
NewExportedTypeEmitter ==
  /\ pc = "start"
  /\ \E version \in Versions, quote_refs \in BOOLEAN :
       emitter' = TypeEmitter(from_version(version), quote_refs)
  /\ entry' = "clientify.TypeEmitter"
  /\ pc' = "emitting_exported"
  /\ UNCHANGED <<last, models>>
  /\ UNCHANGED loading
  /\ UNCHANGED mem

\* emitter.emit(schema), on an emitter of the exported class
EmitExported ==
  /\ pc = "emitting_exported"
  /\ \E schema \in (IF last.op = "" THEN Nodes ELSE {last.schema}) :
       LET r == te_emit(emitter, schema)
       IN /\ emitter' = r.self
          /\ last' = [op |-> "type_emitter.emit", schema |-> schema, base |-> "",
                      before |-> emitter.imports, out |-> r.out, err |-> r.err]
  /\ UNCHANGED <<pc, entry, models>>
  /\ UNCHANGED loading
  /\ UNCHANGED mem

\* emitter.apply_nullable(base, schema), on an emitter of the exported class
\* and what its emit(schema) returned
ApplyNullableExported ==
  /\ pc = "emitting_exported"
  /\ last.op = "type_emitter.emit"
  /\ last.err = ""
  /\ LET r == te_apply_nullable(emitter, last.out, last.schema)
     IN /\ emitter' = r.self
        /\ last' = [last EXCEPT !.op = "type_emitter.apply_nullable", !.base = last.out,
                                !.out = r.out, !.err = r.err]
  /\ UNCHANGED <<pc, entry, models>>
  /\ UNCHANGED loading
  /\ UNCHANGED mem

NextEmit ==
  \/ NewTypeEmitter \/ Emit \/ ApplyNullable \/ GenerateModels
  \/ NewExportedTypeEmitter \/ EmitExported \/ ApplyNullableExported

SpecEmit == InitEmit /\ [][NextEmit]_vars

----------------------------------------------------------------------------
(* The resolver with its objects: the caller's document, the resolver's    *)
(* caches and the returned tree as cells of one heap.                      *)

InitFrame ==
  /\ source \in { s \in Sources : s.kind = "mapping" }
  /\ pc = "start"
  /\ entry = ""
  /\ document = None
  /\ base_path = NoBase
  /\ st = NewState
  /\ result = None
  /\ calls = 0
  /\ ir = NoIR
  /\ emitter = NoEmitter
  /\ last = NoCall
  /\ models = NoModels
  /\ mem = NoMem

\* document = {...}; resolver = RefResolver(document, None)
FrameNewRefResolver ==
  /\ pc = "start"
  /\ entry' = "RefResolver"
  /\ document' = source.doc
  /\ base_path' = NoBase
  /\ st' = NewState
  /\ pc' = "constructed"
  /\ mem' = Only({ [NoMem EXCEPT !.hs = [NewHeapState EXCEPT !.heap = made.heap],
                                 !.root = made.r, !.before = made.heap] :
                   made \in {Store(<<>>, source.doc)} })
  /\ UNCHANGED <<source, result, calls, ir>>
  /\ UNCHANGED generation

\* resolver.resolve(), the objects followed
FrameResolve ==
  /\ entry = "RefResolver"
  /\ mem.root # None
  /\ pc \in {"constructed", "resolved", "failed"}
  /\ calls < MaxCalls
  /\ calls' = calls + 1
  /\ Finish(Pass(document, base_path, st))
  /\ mem' = Only({ [mem EXCEPT !.hs = r.hs, !.out = r.r, !.before = mem.hs.heap,
                               !.docsBefore = mem.hs.docCache] :
                   r \in {heap_resolve(mem.root, base_path, mem.hs)} })
  /\ UNCHANGED <<source, entry, document, base_path, ir>>
  /\ UNCHANGED generation

NextFrame == FrameNewRefResolver \/ FrameResolve

SpecFrame == InitFrame /\ [][NextFrame]_vars

----------------------------------------------------------------------------
(* Places of a document *)

\* a place is the sequence of steps from the root: a key, or an index (idx > 0)
KeyStep(key) == [key |-> key, idx |-> 0]
IndexStep(i) == [key |-> <<>>, idx |-> i]

RECURSIVE SitesFrom(_, _)
SitesFrom(v, p) ==
  {p} \cup
  IF IsList(v)
    THEN UNION { SitesFrom(v.e[i], Append(p, IndexStep(i))) : i \in 1..Len(v.e) }
  ELSE IF IsDict(v)
    THEN UNION { SitesFrom(v.e[i], Append(p, KeyStep(v.keys[i]))) :
                   i \in { j \in 1..Len(v.keys) : v.keys[j] # RefKey } }
  ELSE {}
\* every place of v, the values of "$ref" keys left out
Sites(v) == SitesFrom(v, <<>>)

RECURSIVE At(_, _)
At(v, p) ==
  IF p = <<>> THEN v
  ELSE IF Head(p).idx > 0 THEN At(v.e[Head(p).idx], Tail(p))
  ELSE At(DictGet(v, Head(p).key), Tail(p))

RECURSIVE HasRef(_)
\* some object of v, at any depth, has a "$ref" key
HasRef(v) ==
  \/ IsDict(v) /\ DictHas(v, RefKey)
  \/ (IsDict(v) \/ IsList(v)) /\ \E i \in 1..Len(v.e) : HasRef(v.e[i])

IsRefObject(v) == IsDict(v) /\ DictHas(v, RefKey)
RefOf(obj) == DictGet(obj, RefKey)
\* the places of the resolver's document that hold a $ref object
RefSites == { p \in Sites(document) : IsRefObject(At(document, p)) }

Returned == calls > 0 /\ st.err = ""

\* the document a ref string read at base points into, and whether it exists
TargetPath(r, base) == JoinResolve(base, urldefrag(r).path)
IsLocal(r) == urldefrag(r).path = <<>>
TargetDocKnown(r, base) == IsLocal(r) \/ TargetPath(r, base) \in DOMAIN Files
TargetDoc(r, base) == IF IsLocal(r) THEN document ELSE Files[TargetPath(r, base)]
BadFragment(r) == urldefrag(r).frag # <<>> /\ urldefrag(r).frag[1] # "/"
\* the ref string names a value of its target document
TargetKnown(r, base) ==
  /\ ~BadFragment(r)
  /\ TargetDocKnown(r, base)
  /\ IsDict(TargetDoc(r, base))
  /\ resolve_pointer(TargetDoc(r, base), urldefrag(r).frag).ok
Target(r, base) == resolve_pointer(TargetDoc(r, base), urldefrag(r).frag).v

RootBase == EffectiveBase(base_path)

----------------------------------------------------------------------------
(* C1 *)

\* C1: a document that resolve() returns has no "$ref" key at any depth.
C1_NoRefInResult == Returned => ~HasRef(result)

----------------------------------------------------------------------------
(* C2 *)

SiblingKeys(obj) == { obj.keys[i] : i \in { j \in 1..Len(obj.keys) : obj.keys[j] # RefKey } }

\* C2: where the document has a $ref object with sibling keys, the returned
\* document has an object with every sibling key and the sibling's value, every
\* other key of the target with the target's value, and no "$ref" key.
C2_SiblingMerge ==
  Returned =>
    \A p \in RefSites :
      LET obj == At(document, p)
          out == At(result, p)
          r == RefOf(obj).s
          target == Target(r, RootBase)
      IN Len(obj.keys) > 1 =>
           /\ IsDict(out)
           /\ ~DictHas(out, RefKey)
           /\ \A key \in SiblingKeys(obj) :
                 /\ DictHas(out, key)
                 /\ ~HasRef(DictGet(obj, key)) => DictGet(out, key) = DictGet(obj, key)
           /\ (IsLocal(r) /\ ~DictHas(target, RefKey)) =>
                 \A i \in 1..Len(target.keys) :
                   (target.keys[i] \notin SiblingKeys(obj) /\ ~HasRef(target.e[i])) =>
                     /\ DictHas(out, target.keys[i])
                     /\ DictGet(out, target.keys[i]) = target.e[i]

----------------------------------------------------------------------------
(* C3 *)

\* C3: resolve() on a document without any "$ref" key returns a document
\* equal to it.
C3_FixedPoint == (calls > 0 /\ ~HasRef(document)) => (st.err = "" /\ result = document)

C3_Witness ==
  /\ pc = "resolved"
  /\ ~HasRef(document)
  /\ \E p \in Sites(document) : Len(p) >= 2 /\ IsList(At(document, p)) /\ At(document, p).e # <<>>

----------------------------------------------------------------------------
(* C4 *)

\* the $ref object met at m.base is malformed: its value is not a string, its
\* fragment is non-empty without a leading "/", or its pointer names no value
Malformed(m) ==
  LET ref == RefOf(m.obj)
  IN \/ ~IsStr(ref)
     \/ BadFragment(ref.s)
     \/ TargetDocKnown(ref.s, m.base) /\ ~TargetKnown(ref.s, m.base)

\* C4: when the walk meets a malformed $ref, resolve() raises SpecError and
\* returns nothing.
C4_MalformedRaises ==
  (calls > 0 /\ \E m \in st.met : Malformed(m)) => (st.err = "SpecError" /\ result = None)

----------------------------------------------------------------------------
(* C5 *)

NonObjectTarget(obj, base) ==
  /\ IsStr(RefOf(obj))
  /\ TargetKnown(RefOf(obj).s, base)
  /\ ~IsDict(Target(RefOf(obj).s, base))

----------------------------------------------------------------------------
(* C6 *)

RootKnown == source.kind = "mapping" \/ source.path \in DOMAIN Files
Root == IF source.kind = "mapping" THEN source.doc ELSE Files[source.path]
\* the root is not an object, or its openapi field is absent or not a string
BadRoot ==
  /\ RootKnown
  /\ \/ ~IsDict(Root)
     \/ ~DictHas(Root, W("openapi"))
     \/ ~IsStr(DictGet(Root, W("openapi")))
NothingExpanded ==
  calls = 0 /\ st.met = {} /\ DOMAIN st.cache = {} /\ st.reads = <<>> /\ result = None

\* C6 as stated: load_openapi and resolve_refs both raise SpecError on a bad
\* root, before any $ref is expanded.
C6_EveryEntryPointValidates ==
  (entry \in {"load_openapi", "resolve_refs"} /\ BadRoot) =>
    (st.err = "SpecError" /\ NothingExpanded)

\* C6 amended: load_openapi raises SpecError on a bad root, before any $ref
\* is expanded.
C6_LoadOpenapiValidates ==
  (entry = "load_openapi" /\ BadRoot) => (st.err = "SpecError" /\ NothingExpanded)

C6_Witness ==
  /\ entry = "load_openapi"
  /\ pc = "failed"
  /\ BadRoot
  /\ IsDict(Root) /\ HasRef(Root)

----------------------------------------------------------------------------
(* C7 *)

\* the ref strings given to _resolve_ref in the pass
Lookups == { RefOf(m.obj).s : m \in { n \in st.met : IsStr(RefOf(n.obj)) } }

NoDuplicates(seq) == \A i, j \in 1..Len(seq) : i # j => seq[i] # seq[j]

\* C7: a pass reads no file twice, and after it every ref string looked up is
\* a key of the cache; after the first pass the cache has no other key.
C7_ReadOnceCacheOnce ==
  calls > 0 =>
    /\ NoDuplicates(st.reads)
    /\ st.err = "" => Lookups \subseteq DOMAIN st.cache
    /\ (st.err = "" /\ calls = 1) => DOMAIN st.cache = Lookups

C7_Witness ==
  /\ pc = "resolved"
  /\ \E r1, r2 \in Lookups :
       /\ r1 # r2
       /\ ~IsLocal(r1) /\ ~IsLocal(r2)
       /\ TargetPath(r1, RootBase) = TargetPath(r2, RootBase)
  /\ Len(st.reads) >= 1

----------------------------------------------------------------------------
(* C8 *)

\* the ref string is #/components/schemas/<Name>
IsSchemaRef(r) == StartsWith(r, SchemasPrefix) /\ Len(Split(r, "/")) = 4
SchemaName(r) == Split(r, "/")[4]

SchemaRefSites ==
  { p \in RefSites :
      /\ IsStr(RefOf(At(document, p)))
      /\ IsSchemaRef(RefOf(At(document, p)).s)
      /\ TargetKnown(RefOf(At(document, p)).s, RootBase)
      /\ IsDict(Target(RefOf(At(document, p)).s, RootBase)) }

----------------------------------------------------------------------------
(* C9 *)

\* the pointer segments the claim names, each with the key it selects
C9_Cases ==
  { [seg |-> <<"a", "~", "1", "b">>, key |-> <<"a", "/", "b">>],
    [seg |-> <<"a", "~", "0", "b">>, key |-> <<"a", "~", "b">>],
    [seg |-> <<"~", "0", "1">>, key |-> <<"~", "1">>] }

\* C9: a $ref to #/m/<segment> yields the value of the key of m that the
\* segment selects after ~1 -> / and ~0 -> ~.
C9_PointerUnescape ==
  Returned =>
    \A p \in RefSites : \A c \in C9_Cases :
      LET obj == At(document, p)
      IN (obj = Ref(MiscRef(c.seg)) /\ DictHas(document, W("m"))) =>
           At(result, p) = DictGet(DictGet(document, W("m")), c.key)

C9_Witness ==
  /\ pc = "resolved"
  /\ \E p \in RefSites : At(document, p) = Ref(MiscRef(<<"~", "0", "1">>))
  /\ \E p \in RefSites : At(document, p) = Ref(MiscRef(<<"a", "~", "1", "b">>))

----------------------------------------------------------------------------
(* C10 *)

C10_Order == <<"get", "put", "post", "delete", "options", "head", "patch", "trace">>
C10_Rank(method) == CHOOSE i \in 1..Len(C10_Order) : C10_Order[i] = method
C10_PathIndex(path) == KeyIndex(DictGet(result, W("paths")), path)

\* C10: the operations of one path item are in the order get, put, post,
\* delete, options, head, patch, trace, and the operations of an earlier path
\* of the document come before those of a later path.
C10_MethodOrder ==
  (pc = "built" /\ ir.operations # <<>>) =>
    \A i, j \in 1..Len(ir.operations) :
      i < j =>
        \/ C10_PathIndex(ir.operations[i].path) < C10_PathIndex(ir.operations[j].path)
        \/ /\ ir.operations[i].path = ir.operations[j].path
           /\ C10_Rank(ir.operations[i].method) < C10_Rank(ir.operations[j].method)

C10_Witness ==
  /\ pc = "built"
  /\ DictHas(result, W("paths"))
  /\ \E i, j \in 1..Len(DictGet(result, W("paths")).e) :
       LET first == DictGet(result, W("paths")).e[i]
           second == DictGet(result, W("paths")).e[j]
       IN /\ i < j
          /\ Len(MethodsInDocumentOrder(first)) >= 2
          /\ MethodsInDocumentOrder(first) # PresentMethods(first)
          /\ Len(PresentMethods(second)) >= 2

----------------------------------------------------------------------------
(* C11 *)

\* the path item and the operation object an OperationIR was built from
C11_Item(op) == DictGet(DictGet(result, W("paths")), op.path)
C11_Common(op) == DictGetOr(C11_Item(op), W("parameters"), EmptyList).e
C11_Specific(op) ==
  DictGetOr(DictGet(C11_Item(op), W(op.method)), W("parameters"), EmptyList).e
C11_Named(param) == Truthy(ParamKey(param)[1]) /\ Truthy(ParamKey(param)[2])

\* C11: in every OperationIR no two parameters have the same (name, location),
\* and when a path-level and an operation-level parameter have the same
\* (name, location) the one ParameterIR of that key is built from the
\* operation-level parameter (the last one of that key).
C11_UniqueParameters ==
  pc = "built" =>
    \A o \in 1..Len(ir.operations) :
      LET op == ir.operations[o]
          ps == op.parameters
          common == C11_Common(op)
          specific == C11_Specific(op)
      IN /\ \A i, j \in 1..Len(ps) :
              i # j => <<ps[i].name, ps[i].location>> # <<ps[j].name, ps[j].location>>
         /\ \A c \in 1..Len(common), s \in 1..Len(specific) :
              ( /\ C11_Named(specific[s])
                /\ ParamKey(common[c]) = ParamKey(specific[s])
                /\ \A t \in (s + 1)..Len(specific) :
                     ParamKey(specific[t]) # ParamKey(specific[s]) )
              => \E i \in 1..Len(ps) :
                   /\ ps[i] = build_parameter(specific[s])
                   /\ \A j \in 1..Len(ps) :
                        <<ps[j].name, ps[j].location>> = ParamKey(specific[s]) => j = i

\* a path-level q/query with required false, an operation-level q/query with
\* required true, and a second path-level parameter that stays
C11_Witness ==
  /\ pc = "built"
  /\ \E o \in 1..Len(ir.operations) :
       LET op == ir.operations[o]
       IN /\ \E c \in 1..Len(C11_Common(op)), s \in 1..Len(C11_Specific(op)) :
               /\ ParamKey(C11_Common(op)[c]) = ParamKey(C11_Specific(op)[s])
               /\ ~Truthy(DictGet(C11_Common(op)[c], W("required")))
               /\ Truthy(DictGet(C11_Specific(op)[s], W("required")))
          /\ Len(op.parameters) = 2
          /\ op.parameters[1].name = Str(W("q"))
          /\ op.parameters[1].required

----------------------------------------------------------------------------
(* C12 *)

\* C12: build_ir gives exactly one OperationIR for every (path, method) pair
\* whose path item has the method as a key, whatever the operation object
\* holds, none for any other key, and as many operations as there are pairs.
C12_OnePerPair ==
  pc = "built" =>
    LET paths == DictGetOr(result, W("paths"), EmptyDict)
        pairs == { <<paths.keys[p], Methods[m]>> :
                     p \in 1..Len(paths.keys), m \in 1..Len(Methods) }
        present == { pm \in pairs : DictHas(DictGet(paths, pm[1]), W(pm[2])) }
    IN /\ \A i \in 1..Len(ir.operations) :
            <<ir.operations[i].path, ir.operations[i].method>> \in present
       /\ \A pm \in present :
            Cardinality({ i \in 1..Len(ir.operations) :
                           <<ir.operations[i].path, ir.operations[i].method>> = pm }) = 1
       /\ Len(ir.operations) = Cardinality(present)

----------------------------------------------------------------------------
(* Calls of emit *)

\* emit(schema) on an emitter just constructed with the settings of the one
\* of the run
Fresh(schema) == emit(TypeEmitter(emitter.profile, emitter.quote_refs), schema)

\* the last call was emit(schema), or apply_nullable after it, and what it
\* returned, raised and added to the imports is what Fresh(schema) gives
EmitsLike(schema) ==
  LET r == Fresh(schema)
  IN /\ last.out = r.out
     /\ last.err = r.err
     /\ emitter.imports = last.before \cup r.self.imports

RECURSIVE FirstOccurrences(_)
\* the elements of a sequence in order, each at its first occurrence only
FirstOccurrences(seq) ==
  IF Len(seq) = 0 THEN <<>>
  ELSE <<Head(seq)>> \o FirstOccurrences(SelectSeq(Tail(seq), LAMBDA x : x # Head(seq)))

\* T | None, or Optional[T], by the profile of the emitter
Optional(type) ==
  IF emitter.profile.use_pep604 THEN type \o " | None" ELSE "Optional[" \o type \o "]"

\* A | B, or Union[A, B], by the profile of the emitter; one type stays alone
UnionText(types) ==
  IF Len(types) = 1 THEN types[1]
  ELSE IF emitter.profile.use_pep604 THEN Join(" | ", types)
  ELSE "Union[" \o Join(", ", types) \o "]"

----------------------------------------------------------------------------
(* C13 *)

\* the fields emit branches on, highest priority first
BranchFields ==
  <<RefKey, StampKey, W("oneOf"), W("anyOf"), W("allOf"), W("enum"), W("type")>>

\* the ranks of the branch fields a node carries
C13_Present(schema) ==
  { i \in 1..Len(BranchFields) : DictHas(schema, BranchFields[i]) }

\* the ranks of the branch fields of a node that hold a value emit branches on:
\* any $ref and any type, a non-empty str as stamp, a non-empty value otherwise
C13_Selecting(schema) ==
  { i \in C13_Present(schema) :
      LET value == DictGet(schema, BranchFields[i])
      IN CASE BranchFields[i] \in {RefKey, W("type")} -> TRUE
           [] BranchFields[i] = StampKey -> IsStr(value) /\ Truthy(value)
           [] OTHER -> Truthy(value) }

C13_Highest(ranks) == CHOOSE i \in ranks : \A j \in ranks : i <= j

\* the node that carries the field of rank i of a node alone
C13_Alone(schema, i) == Dict(<<BranchFields[i]>>, <<DictGet(schema, BranchFields[i])>>)

\* the last call was emit on a node that carries several branch fields
C13_SeveralFields ==
  /\ last.op = "emit"
  /\ IsDict(last.schema)
  /\ Cardinality(C13_Present(last.schema)) >= 2

----------------------------------------------------------------------------
(* C14 *)

\* the last call was emit on a node whose one field is a oneOf or an anyOf
\* with a list of members, each of which is emitted without an exception
C14_UnionNode ==
  /\ last.op = "emit"
  /\ IsDict(last.schema)
  /\ Len(last.schema.keys) = 1
  /\ last.schema.keys[1] \in {W("oneOf"), W("anyOf")}
  /\ IsList(last.schema.e[1])
  /\ Len(last.schema.e[1].e) >= 1
  /\ \A i \in 1..Len(last.schema.e[1].e) : Fresh(last.schema.e[1].e[i]).err = ""

\* the members of the node of the last call
C14_Members == last.schema.e[1].e

\* the types of the members, each emitted on its own
C14_Types == [i \in 1..Len(C14_Members) |-> Fresh(C14_Members[i]).out]

\* the imports the members record, each emitted on its own
C14_MemberImports ==
  UNION { Fresh(C14_Members[i]).self.imports : i \in 1..Len(C14_Members) }

\* C14: emit on a oneOf/anyOf node returns the members' types with duplicates
\* removed, first occurrences in member order: one distinct type alone, with
\* nothing but the members' imports recorded; several as A | B under PEP 604,
\* else as Union[A, B] with Union recorded in imports.
C14_DeduplicatedUnion ==
  C14_UnionNode =>
    LET unique == FirstOccurrences(C14_Types)
    IN /\ last.err = ""
       /\ last.out = UnionText(unique)
       /\ emitter.imports =
            last.before \cup C14_MemberImports
            \cup (IF Len(unique) >= 2 /\ ~emitter.profile.use_pep604 THEN {"Union"} ELSE {})

\* a union of three members, two of them of one type, emitted as Union[A, B]
C14_Witness ==
  /\ C14_UnionNode
  /\ Len(C14_Members) = 3
  /\ Len(FirstOccurrences(C14_Types)) = 2
  /\ ~emitter.profile.use_pep604
  /\ "Union" \in emitter.imports
  /\ "Union" \notin last.before

----------------------------------------------------------------------------
(* C15 *)

\* C15: whatever was emitted before on the instance, emit(schema) returns (or
\* raises) what it does on a new instance with the same settings, and the
\* imports after the call are those before it and those the call records on a
\* new instance: the imports are the only state carried between calls.
C15_Deterministic ==
  last.op = "emit" => EmitsLike(last.schema)

\* a call that returns a type and records an import, on an instance that holds
\* other imports of earlier calls
C15_Witness ==
  /\ last.op = "emit"
  /\ last.err = ""
  /\ last.before # {}
  /\ ~(Fresh(last.schema).self.imports \subseteq last.before)
  /\ emitter.imports # last.before

----------------------------------------------------------------------------
(* C16 *)

\* the last call was emit on a node whose one field is an enum with a list of
\* values
C16_EnumNode ==
  /\ last.op = "emit"
  /\ IsDict(last.schema)
  /\ Len(last.schema.keys) = 1
  /\ last.schema.keys[1] = W("enum")
  /\ IsList(last.schema.e[1])
  /\ Len(last.schema.e[1].e) >= 1

\* C16: emit on an enum node returns Literal[...] over the enum values in their
\* order, each value at its first occurrence only, and records Literal in
\* imports.
C16_LiteralDeduplicated ==
  C16_EnumNode =>
    LET values == FirstOccurrences(last.schema.e[1].e)
    IN /\ last.err = ""
       /\ last.out = "Literal[" \o Join(", ", [i \in 1..Len(values) |-> repr(values[i])])
                     \o "]"
       /\ "Literal" \in emitter.imports

----------------------------------------------------------------------------
(* C17 *)

\* the nullable flag of a node is set
C17_Nullable(schema) ==
  IsDict(schema) /\ DictGetOr(schema, W("nullable"), None) = Bool(TRUE)

\* the type expression of a node nested in another: what emit returns for it,
\* wrapped as optional when its nullable flag is set
C17_Nested(schema) ==
  IF C17_Nullable(schema) THEN Optional(Fresh(schema).out) ELSE Fresh(schema).out

\* the last call was emit, or apply_nullable after it, without an exception,
\* for a node that emit branches on the type of and that holds a node under key
C17_Container(type, key) ==
  /\ last.op \in {"emit", "apply_nullable"}
  /\ last.err = ""
  /\ IsDict(last.schema)
  /\ C13_Selecting(last.schema) = {Len(BranchFields)}
  /\ DictGet(last.schema, W("type")) = Str(W(type))
  /\ IsDict(DictGetOr(last.schema, W(key), None))
  /\ Fresh(DictGet(last.schema, W(key))).err = ""

\* the type emit returned for the node of the last call
C17_Base == IF last.op = "emit" THEN last.out ELSE last.base

\* C17: the type expression of a node whose nullable flag is set is wrapped as
\* optional, T | None under PEP 604 and else Optional[T] with Optional recorded
\* in imports: for the node emit and apply_nullable are called with, for the
\* items of an array, for the additionalProperties of an object and for the
\* members of a oneOf or anyOf.
C17_NullableWrapped ==
  /\ (last.op = "apply_nullable" /\ C17_Nullable(last.schema)) =>
       /\ last.err = ""
       /\ last.out = Optional(last.base)
       /\ emitter.profile.use_pep604 \/ "Optional" \in emitter.imports
  /\ C17_Container("array", "items") =>
       C17_Base = "list[" \o C17_Nested(DictGet(last.schema, W("items"))) \o "]"
  /\ C17_Container("object", "additionalProperties") =>
       C17_Base = "dict[str, "
                  \o C17_Nested(DictGet(last.schema, W("additionalProperties"))) \o "]"
  /\ C14_UnionNode =>
       last.out = UnionText(FirstOccurrences(
                    [i \in 1..Len(C14_Members) |-> C17_Nested(C14_Members[i])]))

----------------------------------------------------------------------------
(* C18 *)

\* the properties of a member of an allOf
C18_Properties(member) == DictGetOr(member, W("properties"), EmptyDict)

\* the names in the required list of a member of an allOf
C18_Required(member) ==
  LET required == DictGetOr(member, W("required"), EmptyList)
  IN { required.e[i] : i \in 1..Len(required.e) }

\* the named schema is an allOf over object schemas, typed object or untyped,
\* that hold a property between them
C18_AllOfObjects(schema_ir) ==
  /\ IsDict(schema_ir.schema)
  /\ DictHas(schema_ir.schema, W("allOf"))
  /\ LET members == DictGet(schema_ir.schema, W("allOf"))
     IN /\ IsList(members)
        /\ \A i \in 1..Len(members.e) :
             /\ IsDict(members.e[i])
             /\ DictGetOr(members.e[i], W("type"), Str(W("object"))) = Str(W("object"))
             /\ IsDict(C18_Properties(members.e[i]))
             /\ IsList(DictGetOr(members.e[i], W("required"), EmptyList))
        /\ \E i \in 1..Len(members.e) : Len(C18_Properties(members.e[i]).keys) > 0

RECURSIVE C18_Names(_)
\* the names of the properties of the members, in the order of the members
C18_Names(members) ==
  IF Len(members) = 0 THEN <<>>
  ELSE C18_Properties(Head(members)).keys \o C18_Names(Tail(members))

\* the schema of a property in the last member that has it
C18_Winner(members, name) ==
  LET holders == { i \in 1..Len(members) : DictHas(C18_Properties(members[i]), name) }
      latest == CHOOSE i \in holders : \A j \in holders : j <= i
  IN DictGet(C18_Properties(members[latest]), name)

\* the type of a field, as the models emitter of the run writes it
C18_Type(schema) ==
  replace_object_with_json_value(
    EmitNullable(TypeEmitter([models.profile EXCEPT !.use_pep604 = FALSE,
                                                    !.use_required = TRUE], TRUE),
                 schema).out)

\* the name is in the required list of a member
C18_InUnion(members, name) ==
  \E i \in 1..Len(members) : Str(name) \in C18_Required(members[i])

\* the names of the required fields: those in the union of the required lists
\* of the members; less_defaults leaves out the names whose schema has a default
C18_RequiredNames(members, less_defaults) ==
  { name \in { C18_Names(members)[i] : i \in 1..Len(C18_Names(members)) } :
      /\ C18_InUnion(members, name)
      /\ less_defaults => ~DictHas(C18_Winner(members, name), W("default")) }

\* the head of the TypedDict of a named schema: the fields are the properties
\* of the members, a name once and at its first place, the type that of the
\* last member that has it, Required for the names in required
C18_TypedDict(name, members, required) ==
  LET names == FirstOccurrences(C18_Names(members))
      field(i) ==
        LET type == C18_Type(C18_Winner(members, names[i]))
        IN "        " \o repr_str(Text(names[i])) \o ": "
           \o (IF names[i] \in required THEN "Required[" \o type \o "]" ELSE type) \o ","
  IN Join("\n", <<Text(name) \o " = TypedDict(", "    " \o repr_str(Text(name)) \o ",",
                  "    {">>
                \o [i \in 1..Len(names) |-> field(i)]
                \o <<"    },">>)

\* generate_models has run, and for every named schema that is an allOf over
\* object schemas the module holds the TypedDict of the merged properties with
\* the required fields of C18_RequiredNames
C18_Generated(less_defaults) ==
  pc = "generated" =>
    \A i \in 1..Len(models.schemas) :
      C18_AllOfObjects(models.schemas[i]) =>
        LET members == DictGet(models.schemas[i].schema, W("allOf")).e
        IN /\ models.err = ""
           /\ Contains(models.code,
                       C18_TypedDict(models.schemas[i].name, members,
                                     C18_RequiredNames(members, less_defaults)))

\* C18 as stated: a named schema that is an allOf over object schemas is
\* generated as one TypedDict whose fields are the members' properties merged,
\* the later member winning a name, and whose required fields are the union of
\* the members' required lists.
C18_RequiredIsUnion == C18_Generated(FALSE)

\* C18 amended: a named schema that is an allOf over object schemas is
\* generated as one TypedDict whose fields are the members' properties merged,
\* the later member winning a name, and whose required fields are the union of
\* the members' required lists less the names whose merged property schema has
\* a default.
C18_RequiredIsUnionLessDefaults == C18_Generated(TRUE)

\* two members, each with a required property the other has not: both fields
\* are Required in the one TypedDict
C18_Witness ==
  /\ pc = "generated"
  /\ models.err = ""
  /\ \E i \in 1..Len(models.schemas) :
       /\ C18_AllOfObjects(models.schemas[i])
       /\ LET members == DictGet(models.schemas[i].schema, W("allOf")).e
          IN /\ Len(members) = 2
             /\ C18_Required(members[1]) # {}
             /\ C18_Required(members[2]) # {}
             /\ C18_Required(members[1]) \cap C18_Required(members[2]) = {}
             /\ \A m \in 1..2 : \A r \in C18_Required(members[m]) :
                  /\ DictHas(C18_Properties(members[m]), r.s)
                  /\ ~DictHas(C18_Winner(members, r.s), W("default"))
                  /\ Contains(models.code,
                              repr_str(Text(r.s)) \o ": Required["
                              \o C18_Type(C18_Winner(members, r.s)) \o "],")

----------------------------------------------------------------------------
(* C19 *)

\* C19: emit called with the boolean schema true, with the boolean schema
\* false or with the empty schema returns object and raises nothing.
C19_BooleanAndEmptyAccepted ==
  (last.op = "emit" /\ last.schema \in {Bool(TRUE), Bool(FALSE), EmptyDict}) =>
    /\ last.err = ""
    /\ last.out = "object"

----------------------------------------------------------------------------
(* C20 *)

\* the primitive type of a type name
C20_Primitive(name) ==
  CASE name = Str(W("string")) -> "str"
    [] name = Str(W("integer")) -> "int"
    [] name = Str(W("number")) -> "float"
    [] name = Str(W("boolean")) -> "bool"
    [] name = Str(W("null")) -> "None"
    [] OTHER -> "object"

\* C20: emit on a node whose type is a list of type names returns the union of
\* the primitive types of the names, in the order of the list.
C20_TypeListUnion ==
  (/\ last.op = "emit"
   /\ IsDict(last.schema)
   /\ last.schema.keys = <<W("type")>>
   /\ IsList(last.schema.e[1])
   /\ Len(last.schema.e[1].e) >= 1) =>
    /\ last.err = ""
    /\ last.out = UnionText([i \in 1..Len(last.schema.e[1].e) |->
                               C20_Primitive(last.schema.e[1].e[i])])

----------------------------------------------------------------------------
(* C21 *)

\* the refs whose expansion the document's cycles go through: a ref that is
\* met again inside its own target
C21_Cyclic ==
  \E m \in st.met :
    /\ IsStr(RefOf(m.obj))
    /\ RefOf(m.obj).s \in DOMAIN st.cache
    /\ \E p \in Sites(st.cache[RefOf(m.obj).s]) :
         /\ IsRefObject(At(st.cache[RefOf(m.obj).s], p))
         /\ RefOf(At(st.cache[RefOf(m.obj).s], p)) = RefOf(m.obj)

\* C21: every pass of resolve() ends, with a document or with an exception
\* of the resolver, and never by running out of stack: the expansions that
\* are open at one time are expansions of different ref strings, each of them
\* a key of the cache, so their number never exceeds the number of cache keys.
C21_Terminates ==
  calls > 0 =>
    /\ pc \in {"resolved", "failed", "built", "build_failed"}
    /\ st.err # "RecursionError"
    /\ st.deepest <= Cardinality(DOMAIN st.cache)
    /\ st.deepest < RecursionLimit

C21_Witness ==
  /\ pc = "resolved"
  /\ C21_Cyclic
  /\ st.deepest >= 2
  /\ \E m \in st.met : Len(m.obj.keys) > 1 /\ RefOf(m.obj) = Str(RefA)
  /\ \E m \in st.met : RefOf(m.obj) = Str(W("#"))

----------------------------------------------------------------------------
(* C22 *)

\* a chain of file refs goes through no more files than there are
C22_MaxHops == Cardinality(DOMAIN Files)

RECURSIVE C22_Follow(_, _, _)
\* the value a file ref read at base stands for: the pointer's target in the
\* file at base / path and, where that target is a file ref again, the value
\* that ref stands for at the directory of the file it is written in
C22_Follow(r, base, hops) ==
  IF hops = 0 \/ IsLocal(r) \/ ~TargetKnown(r, base) THEN [ok |-> FALSE, v |-> None]
  ELSE IF IsRefObject(Target(r, base))
    THEN IF IsRefOnly(Target(r, base)) /\ IsStr(RefOf(Target(r, base)))
           THEN C22_Follow(RefOf(Target(r, base)).s, Parent(TargetPath(r, base)), hops - 1)
           ELSE [ok |-> FALSE, v |-> None]
  ELSE [ok |-> ~HasRef(Target(r, base)), v |-> Target(r, base)]

\* C22: in the first pass every file ref the walk meets has the file at
\* (base of the occurrence) / (path of the ref) fetched, and a place of the
\* root document that holds only a file ref gets the value that the ref
\* stands for, each ref of the chain read at the directory of its own file
\* (places where the pass left a $ref unexpanded are not looked at).
C22_RelativeToOccurrence ==
  (calls = 1 /\ st.err = "") =>
    /\ \A m \in st.met :
         (IsStr(RefOf(m.obj)) /\ ~IsLocal(RefOf(m.obj).s)) =>
            TargetPath(RefOf(m.obj).s, m.base) \in DOMAIN st.docCache
    /\ \A p \in RefSites :
         LET obj == At(document, p)
         IN ( /\ IsRefOnly(obj) /\ IsStr(RefOf(obj))
              /\ C22_Follow(RefOf(obj).s, RootBase, C22_MaxHops).ok
              /\ ~HasRef(At(result, p)) ) =>
               At(result, p) = C22_Follow(RefOf(obj).s, RootBase, C22_MaxHops).v

----------------------------------------------------------------------------
(* C23 *)

\* C23: every resolve() call on a RefResolver gives what a pass that starts
\* with an empty ref cache and an empty document cache gives: the same
\* document or the same exception, and afterwards the caches hold the entries
\* of that pass only.
C23_CachesPerPass ==
  (entry = "RefResolver" /\ calls > 0) =>
    /\ result = Pass(document, base_path, NewState).v
    /\ st.err = Pass(document, base_path, NewState).st.err
    /\ DOMAIN st.cache = DOMAIN Pass(document, base_path, NewState).st.cache
    /\ DOMAIN st.docCache = DOMAIN Pass(document, base_path, NewState).st.docCache

----------------------------------------------------------------------------
(* C24 *)

\* the last call was emit on a node whose one field is an allOf with a list
\* of members, each of them a dict that is emitted without an exception
C24_AllOfNode ==
  /\ last.op = "emit"
  /\ IsDict(last.schema)
  /\ last.schema.keys = <<W("allOf")>>
  /\ IsList(last.schema.e[1])
  /\ Len(last.schema.e[1].e) >= 1
  /\ \A i \in 1..Len(last.schema.e[1].e) :
       IsDict(last.schema.e[1].e[i]) /\ Fresh(last.schema.e[1].e[i]).err = ""

\* the member has a type and it is not object
C24_NotObject(member) ==
  DictHas(member, W("type")) /\ DictGet(member, W("type")) # Str(W("object"))

\* C24: emit on an allOf node with a member that is not an object schema
\* returns and records what it does on the union (anyOf) of the same members,
\* and when it returns the object type dict[str, object] without that being
\* the union of the members, every member is an object-type or untyped schema.
C24_AllOfFallback ==
  C24_AllOfNode =>
    /\ (\E i \in 1..Len(last.schema.e[1].e) : C24_NotObject(last.schema.e[1].e[i])) =>
          EmitsLike(Obj1("anyOf", last.schema.e[1]))
    /\ (last.out = "dict[str, object]" /\ ~EmitsLike(Obj1("anyOf", last.schema.e[1]))) =>
          \A i \in 1..Len(last.schema.e[1].e) : ~C24_NotObject(last.schema.e[1].e[i])

----------------------------------------------------------------------------
(* C25 *)

C25_Paths == DictGetOr(result, W("paths"), EmptyDict)

\* the (path, method) pairs of the document whose operation is an object:
\* p an index of the paths map, m an index of Methods
C25_Pairs ==
  { pm \in (1..Len(C25_Paths.keys)) \X (1..Len(Methods)) :
      /\ DictHas(C25_Paths.e[pm[1]], W(Methods[pm[2]]))
      /\ IsDict(DictGet(C25_Paths.e[pm[1]], W(Methods[pm[2]]))) }
C25_Item(pm) == C25_Paths.e[pm[1]]
C25_Operation(pm) == DictGet(C25_Item(pm), W(Methods[pm[2]]))
\* the OperationIRs built for the pair
C25_Built(pm) ==
  { i \in 1..Len(ir.operations) :
      /\ ir.operations[i].path = C25_Paths.keys[pm[1]]
      /\ ir.operations[i].method = Methods[pm[2]] }

\* C25: build_ir on a document that resolve() returned raises nothing; without
\* components or without schemas it gives no schemas, without paths no
\* operations; an operation with no parameters (none in its path item either)
\* has an OperationIR with parameters = [], one with no requestBody an
\* OperationIR with request_body = None; the responses of an OperationIR are
\* those of the responses map in its order, and a response without content
\* has content = [].
C25_NeverFailsEmptyParts ==
  pc \in {"built", "build_failed"} =>
    /\ ir.err = ""
    /\ (~DictHas(result, W("components"))
          \/ ~DictHas(DictGet(result, W("components")), W("schemas"))) => ir.schemas = <<>>
    /\ ~DictHas(result, W("paths")) => ir.operations = <<>>
    /\ \A pm \in C25_Pairs :
         /\ (~DictHas(C25_Operation(pm), W("parameters"))
               /\ ~DictHas(C25_Item(pm), W("parameters"))) =>
              \E i \in C25_Built(pm) : ir.operations[i].parameters = <<>>
         /\ ~DictHas(C25_Operation(pm), W("requestBody")) =>
              \E i \in C25_Built(pm) : ir.operations[i].request_body = NoRequestBody
         /\ \A i \in C25_Built(pm) :
              LET responses == DictGetOr(C25_Operation(pm), W("responses"), EmptyDict)
                  built == ir.operations[i].responses
              IN /\ Len(built) = Len(responses.keys)
                 /\ \A k \in 1..Len(built) :
                      /\ built[k].status = responses.keys[k]
                      /\ ~DictHas(responses.e[k], W("content")) => built[k].content = <<>>

----------------------------------------------------------------------------
(* C26 *)

\* the places of the root document that hold the same ref-only object
C26_SameRef(p, q) ==
  /\ At(document, p) = At(document, q)
  /\ IsRefOnly(At(document, p))
  /\ IsStr(RefOf(At(document, p)))

\* C26: in the first pass, two places of the root document that hold the same
\* ref-only object {"$ref": X} have the same value in the returned document.
C26_SameValueEveryOccurrence ==
  (calls = 1 /\ st.err = "") =>
    \A p, q \in RefSites : C26_SameRef(p, q) => At(result, p) = At(result, q)

----------------------------------------------------------------------------
(* C27 *)

\* the emitter of the call made last, as it was before the call, taken as an
\* emitter of generation/emitter.py
C27_Before == [emitter EXCEPT !.imports = last.before]

\* C27: a call of emit on an emitter of type_emitter.py returns (or raises)
\* what emit returns on an emitter of emitter.py with the same profile,
\* quote_refs and imports, and records the same imports; apply_nullable on
\* what it returned gives what apply_nullable of emitter.py gives.
C27_SameOutput ==
  /\ last.op = "type_emitter.emit" =>
        /\ last.out = emit(C27_Before, last.schema).out
        /\ last.err = emit(C27_Before, last.schema).err
        /\ emitter.imports = emit(C27_Before, last.schema).self.imports
  /\ last.op = "type_emitter.apply_nullable" =>
        /\ last.out = apply_nullable(C27_Before, last.base, last.schema).out
        /\ last.err = apply_nullable(C27_Before, last.base, last.schema).err
        /\ apply_nullable(C27_Before, last.base, last.schema).self.imports
             \subseteq emitter.imports

----------------------------------------------------------------------------
(* C28 *)

RECURSIVE C28_Reach(_, _)
\* the addresses of the dicts and lists a slot leads to
C28_Reach(heap, slot) ==
  IF ~IsPtr(slot) THEN {}
  ELSE {slot.e[1]} \cup
       UNION { C28_Reach(heap, heap[slot.e[1]].e[i]) : i \in 1..Len(heap[slot.e[1]].e) }

\* the objects of the input: the caller's document and the cached documents
C28_Input ==
  C28_Reach(mem.hs.heap, mem.root)
    \cup UNION { C28_Reach(mem.hs.heap, mem.hs.docCache[p]) : p \in DOMAIN mem.hs.docCache }

C28_Passed == mem.root # None /\ calls > 0

\* C28: after a pass of resolve(), returned or aborted, the caller's document
\* and every document the document cache held are what they were before the
\* pass, no object of them changed, and the returned tree has no dict or list
\* in common with the caller's document or a cached document.
C28_InputUnchanged ==
  C28_Passed =>
    /\ Val(mem.hs.heap, mem.root) = document
    /\ \A a \in C28_Reach(mem.before, mem.root) : mem.hs.heap[a] = mem.before[a]
    /\ \A p \in DOMAIN mem.docsBefore :
         /\ mem.hs.docCache[p] = mem.docsBefore[p]
         /\ Val(mem.hs.heap, mem.docsBefore[p]) = Val(mem.before, mem.docsBefore[p])
         /\ \A a \in C28_Reach(mem.before, mem.docsBefore[p]) :
              mem.hs.heap[a] = mem.before[a]
    /\ mem.hs.err = "" => C28_Reach(mem.hs.heap, mem.out) \cap C28_Input = {}

\* a second pass that returned a document with a stamped target and an
\* overlaid sibling, with a document in the cache before it
C28_Witness ==
  /\ C28_Passed
  /\ calls = 2
  /\ pc = "resolved"
  /\ mem.hs.err = ""
  /\ Val(mem.hs.heap, mem.out) = result
  /\ DOMAIN mem.docsBefore # {}
  /\ \E p \in Sites(result) : DictHas(At(result, p), StampKey)
  /\ \E p \in Sites(document) :
       /\ DictHas(At(document, p), RefKey)
       /\ ~IsRefOnly(At(document, p))

----------------------------------------------------------------------------
(* C29 *)

\* the places where the document refers, at the root's base, to an object of
\* the document that is no $ref object and has no stamp of its own: whatever
\* stamp the returned document has there was added for this ref
C29_Sites ==
  { p \in RefSites :
      /\ IsStr(RefOf(At(document, p)))
      /\ IsLocal(RefOf(At(document, p)).s)
      /\ TargetKnown(RefOf(At(document, p)).s, RootBase)
      /\ IsDict(Target(RefOf(At(document, p)).s, RootBase))
      /\ ~DictHas(Target(RefOf(At(document, p)).s, RootBase), RefKey)
      /\ ~DictHas(Target(RefOf(At(document, p)).s, RootBase), StampKey)
      /\ StampKey \notin SiblingKeys(At(document, p)) }

\* the ref string points inside a schema of components.schemas
C29_Deeper(r) == StartsWith(r, SchemasPrefix) /\ Len(Split(r, "/")) > 4

\* C29: the returned document has a schema-name stamp where the document
\* refers to an object only if the ref string is #/components/schemas/<Name>,
\* and the stamp is <Name>; where the ref string points deeper, as
\* #/components/schemas/A/properties does, the object has no stamp.
C29_StampOnlyForSchemaEntry ==
  Returned =>
    \A p \in C29_Sites :
      (IsDict(At(result, p)) /\ DictHas(At(result, p), StampKey)) =>
        /\ IsSchemaRef(RefOf(At(document, p)).s)
        /\ DictGet(At(result, p), StampKey) = Str(SchemaName(RefOf(At(document, p)).s))

----------------------------------------------------------------------------
(* C30 *)

RECURSIVE C30_Emitted(_)
\* the members emit is called on, in order, until one raises
C30_Members(items) ==
  IF ~Iterate(items).ok THEN {}
  ELSE UNION { C30_Emitted(Iterate(items).items[i]) :
                 i \in { k \in 1..Len(Iterate(items).items) :
                           \A j \in 1..(k - 1) :
                             emit(NoEmitter, Iterate(items).items[j]).err = "" } }
\* the nodes emit(node) calls emit on, node itself among them
C30_Emitted(node) ==
  {node} \cup
  IF ~IsDict(node) THEN {}
  ELSE CASE Branch(node) \in {"oneOf", "anyOf"} ->
              C30_Members(DictGet(node, W(Branch(node))))
         [] Branch(node) = "allOf" ->
              IF emit_all_of(NoEmitter, DictGet(node, W("allOf"))).err = "AttributeError"
                 \/ emit_all_of(NoEmitter, DictGet(node, W("allOf"))).out = "dict[str, object]"
                THEN {}
                ELSE C30_Members(DictGet(node, W("allOf")))
         [] Branch(node) = "type" /\ DictGetOr(node, W("type"), None) = Str(W("array"))
              /\ IsDict(DictGetOr(node, W("items"), None)) ->
              C30_Emitted(DictGet(node, W("items")))
         [] Branch(node) = "type" /\ DictGetOr(node, W("type"), None) = Str(W("object"))
              /\ IsDict(DictGetOr(node, W("additionalProperties"), None)) ->
              C30_Emitted(DictGet(node, W("additionalProperties")))
         [] OTHER -> {}

C30_TookEnum(schema) == \E n \in C30_Emitted(schema) : IsDict(n) /\ Branch(n) = "enum"

\* the imports of a TypeEmitter are among Literal, Union and Optional, and
\* neither Union nor Optional under a PEP 604 profile
C30_Bounded ==
  entry = "TypeEmitter" =>
    /\ emitter.imports \subseteq {"Literal", "Union", "Optional"}
    /\ emitter.profile.use_pep604 => emitter.imports \cap {"Union", "Optional"} = {}

\* a call on a TypeEmitter removes no import, and adds Literal only if it is
\* emit and a node it emitted took the enum branch
C30_Step ==
  entry' = "TypeEmitter" =>
    /\ emitter.imports \subseteq emitter'.imports
    /\ "Literal" \in emitter'.imports \ emitter.imports =>
         last'.op = "emit" /\ C30_TookEnum(last'.schema)

\* C30: over any sequence of emit and apply_nullable calls on one TypeEmitter
\* the import set only grows and stays within {Literal, Union, Optional}; under
\* a PEP 604 profile it never has Union or Optional; and Literal comes into it
\* only by an emit call one of whose emitted nodes took the enum branch.
C30_ImportSet == [](C30_Bounded) /\ [][C30_Step]_vars

\* every import is there: Literal from an earlier emit call, Optional added by
\* the apply_nullable call made last
C30_Witness ==
  /\ entry = "TypeEmitter"
  /\ last.op = "apply_nullable"
  /\ emitter.imports = {"Literal", "Union", "Optional"}
  /\ "Literal" \in last.before
  /\ "Optional" \notin last.before

====
